---- MODULE Spec2Model ----
(***************************************************************************)
(* Feature evaluation of catboost/libs/train_lib/eval_feature.cpp:         *)
(* the fold partitioner (PrepareFolds, PrepareTimeSplitFolds), the         *)
(* feature-set projector (UpdateIgnoredFeaturesInLearn) and the            *)
(* checkpointed orchestrator (EvaluateFeatures, EvaluateFeaturesImpl,      *)
(* TFeatureEvaluationCallbacks).                                           *)
(***************************************************************************)
EXTENDS Integers, Sequences, FiniteSets, TLC

VARIABLES
    \* ---- fold partitioner (one call of PrepareFolds / PrepareTimeSplitFolds)
    pfPc,            \* "call" | "done" | "failed"
    pfInput,         \* the arguments of the call
    foldsData,       \* TVector<TTrainingDataProviders>: [Learn, Test] per fold
    pfError,         \* message of the CB_ENSURE that failed, "" when none
    \* ---- feature-set projector (one call of UpdateIgnoredFeaturesInLearn)
    uiPc,            \* "call" | "done"
    uiInput,         \* the arguments of the call
    ignoredFeatures, \* TVector<ui32> ignoredFeatures after the std::sort
    \* ---- orchestrator: the inputs of EvaluateFeatures
    featureEvalOptions, \* the requested TFeatureEvalOptions
    cvParams,        \* TCvDataPartitionParams: Initialized, FoldCount, Type, Shuffle
    saveSnapshot,    \* outputFileOptions.SaveSnapshot()
    constantSets,    \* feature sets whose Testing projection leaves no usable feature
    snapshotFile,    \* the snapshot file on disk, Nothing when it does not exist
    \* ---- orchestrator: the process
    pc,              \* position in EvaluateFeatures / EvaluateFeaturesImpl
    error,           \* message of the failed CB_ENSURE, "" when none
    summary,         \* TFeatureEvaluationSummary summary
    callbacks,       \* TFeatureEvaluationCallbacks
    disjointFoldCount,
    foldRangePart,   \* the fold range's options: FoldSize, Offset, FoldCount
    foldRangeIdx,
    processedFoldCount,
    featureSetIdx,   \* loop variable of EvaluateFeaturesImpl
    isTest,          \* argument of trainFullModels
    foldIdx,         \* loop variable of trainFullModels
    randCalls,       \* rand.GenRand() calls made on the range's generator
    foldContext,     \* the fold being trained: FoldIdx, seed, treeCount of FullModel
    metrics,         \* the metrics CreateMetrics returns in this process
    \* ---- history of the current process (not program state)
    restarts,        \* how often the process was killed and started again
    trainedLog,      \* tuples whose training was started, in order
    skippedLog,      \* tuples skipped by HaveEvalFeatureSummary, in order
    \* ---- summary engine (one call of a TFeatureEvaluationSummary method)
    smPc,            \* "call" | "done"
    smInput,         \* the method and its arguments
    smSummary,       \* the summary the method worked on
    smAltered,       \* the same for the arguments with other metric columns
    \* ---- CreateFoldData, task by task (one call)
    cfPc,            \* "call" | "tasks" | "done" | "failed"
    cfInput,         \* trainSubsets, testSubsets, cpuUsedRamLimit
    cfTasks,         \* TVector<std::function<void()>> tasks, with each task's progress
    cfFoldsData,     \* *foldsData, which *testFoldsData aliases
    cfDone           \* indices of the tasks that have finished, in order (history)

pfVars == <<pfPc, pfInput, foldsData, pfError>>
uiVars == <<uiPc, uiInput, ignoredFeatures>>
inVars == <<featureEvalOptions, cvParams, saveSnapshot, constantSets, metrics>>
procVars == <<pc, error, summary, callbacks, disjointFoldCount, foldRangePart, foldRangeIdx, processedFoldCount, featureSetIdx, isTest, foldIdx, randCalls, foldContext>>
histVars == <<restarts, trainedLog, skippedLog>>
efVars == <<inVars, snapshotFile, procVars, histVars>>
smVars == <<smPc, smInput, smSummary, smAltered>>
cfVars == <<cfPc, cfInput, cfTasks, cfFoldsData, cfDone>>
vars == <<pfVars, uiVars, efVars, smVars, cfVars>>

\* ------------------------------------------------------------------ bounds
MaxUnits == 7
MaxFoldSize == 3
MaxFeature == 2
MaxFeatureSets == 2
MaxCvFoldCount == 3
MaxOffset == 2
MaxFoldCount == 2
PoolUnits == 4
MaxRestarts == 1
IterationCount == 2
MaxMetricValue == 1
MaxFolds == 3
MaxMetrics == 2
MaxRelativeFoldSize == 2

\* ----------------------------------------------------------------- helpers
MinOf(a, b) == IF a < b THEN a ELSE b

MaxOf(a, b) == IF a < b THEN b ELSE a

FloorDiv(a, b) == a \div b

CeilDiv(a, b) == (a + b - 1) \div b

Units(n) == 0 .. (n - 1)

RECURSIVE SetToSeq(_)
\* the elements of a finite set of numbers in increasing order
SetToSeq(S) == IF S = {} THEN <<>> ELSE LET m == CHOOSE x \in S : \A y \in S : x <= y IN <<m>> \o SetToSeq(S \ {m})

RECURSIVE Insert(_, _)
Insert(x, s) == IF s = <<>> THEN <<x>> ELSE IF x <= Head(s) THEN <<x>> \o s ELSE <<Head(s)>> \o Insert(x, Tail(s))

RECURSIVE StdSort(_)
\* std::sort on a vector of numbers (duplicates are kept)
StdSort(s) == IF s = <<>> THEN <<>> ELSE Insert(Head(s), StdSort(Tail(s)))

RECURSIVE Concat(_)
Concat(ss) == IF ss = <<>> THEN <<>> ELSE Head(ss) \o Concat(Tail(ss))

SeqRange(s) == {s[i] : i \in 1 .. Len(s)}

\* ============================================================ partitioner

\* NCB::SplitByObjects / NCB::SplitByGroups: floor(n / foldSize) contiguous
\* blocks of foldSize sampling units each.
SplitByUnits(n, foldSize) == [k \in 1 .. (n \div foldSize) |-> {u \in Units(n) : (k - 1) * foldSize <= u /\ u < k * foldSize}]

\* NCB::Split: foldCount contiguous blocks that cover all units.
Split(n, foldCount) == [k \in 1 .. foldCount |-> {u \in Units(n) : ((k - 1) * n) \div foldCount <= u /\ u < (k * n) \div foldCount}]

\* CalcTrainSubsets: for every subset, its complement in the dataset.
CalcTrainSubsets(testSubsets, groupCount) == [k \in 1 .. Len(testSubsets) |-> Units(groupCount) \ testSubsets[k]]

\* NCB::QuantileSplitByObjects / ByGroups: the units up to the quantile
\* timestamp (the first q, units being in time order) in blocks of foldSize,
\* followed by one block with all units past the quantile timestamp.
QuantileSplit(n, q, foldSize) == [k \in 1 .. (q \div foldSize) |-> {u \in Units(n) : (k - 1) * foldSize <= u /\ u < k * foldSize}] \o <<{u \in Units(n) : q <= u}>>

\* TakeMiddleElements: CB_ENSURE_INTERNAL, then keep [offset, offset + count).
TakeMiddleElements(offset, count, subsets) == [ok |-> offset + count <= Len(subsets), subsets |-> IF offset + count <= Len(subsets) THEN SubSeq(subsets, offset + 1, offset + count) ELSE subsets]

\* CreateFoldData: task 2i writes fold i's Learn, task 2i+1 appends to fold
\* i's Test (testFoldsData aliases foldsData: the caller passes nullptr).
CreateFoldData(trainSubsets, testSubsets) ==
    IF Len(trainSubsets) # Len(testSubsets)
    THEN [error |-> "Number of train and test subsets do not match", foldsData |-> <<>>]
    ELSE [error |-> "", foldsData |-> [i \in 1 .. Len(trainSubsets) |-> [Learn |-> trainSubsets[i], Test |-> <<testSubsets[i]>>]]]

Failed(msg) == [error |-> msg, foldsData |-> <<>>]

PrepareFoldsNoSwap(n, cvInitialized, cvType, cvFoldCount, FoldCount, FoldSize, Offset) ==
    LET foldCount == IF cvInitialized THEN cvFoldCount ELSE FoldCount
        testSubsets == IF cvInitialized THEN Split(n, foldCount) ELSE SplitByUnits(n, FoldSize)
        trainSubsets == CalcTrainSubsets(testSubsets, n)
        midTrain == TakeMiddleElements(Offset, foldCount, trainSubsets)
        midTest == TakeMiddleElements(Offset, foldCount, testSubsets)
    IN  IF foldCount <= 0 THEN Failed("Fold count must be positive integer")
        ELSE IF cvInitialized /\ cvType # "Inverted" THEN Failed("Feature evaluation requires inverted cross-validation")
        ELSE IF ~cvInitialized /\ FoldSize <= 0 THEN Failed("Fold size must be positive integer")
        ELSE IF ~cvInitialized /\ ~(Offset + foldCount <= Len(testSubsets)) THEN Failed("Dataset permutation logic failed")
        ELSE IF cvInitialized THEN CreateFoldData(trainSubsets, testSubsets)
        ELSE CreateFoldData(midTrain.subsets, midTest.subsets)

PrepareFoldsTestNotWindowed(n, cvInitialized, cvType, cvFoldCount, FoldCount, FoldSize, Offset) ==
    LET foldCount == IF cvInitialized THEN cvFoldCount ELSE FoldCount
        blocks == IF cvInitialized THEN Split(n, foldCount) ELSE SplitByUnits(n, FoldSize)
        trainSubsets == blocks
        testSubsets == CalcTrainSubsets(blocks, n)
        midTrain == TakeMiddleElements(Offset, foldCount, trainSubsets)
        midTest == TakeMiddleElements(0, foldCount, testSubsets)
    IN  IF foldCount <= 0 THEN Failed("Fold count must be positive integer")
        ELSE IF cvInitialized /\ cvType # "Inverted" THEN Failed("Feature evaluation requires inverted cross-validation")
        ELSE IF ~cvInitialized /\ FoldSize <= 0 THEN Failed("Fold size must be positive integer")
        ELSE IF ~cvInitialized /\ ~(Offset + foldCount <= Len(blocks)) THEN Failed("Dataset permutation logic failed")
        ELSE IF cvInitialized THEN CreateFoldData(trainSubsets, testSubsets)
        ELSE CreateFoldData(midTrain.subsets, midTest.subsets)

\* PrepareFolds: the blocks of the split are first called testSubsets, their
\* complements trainSubsets, and the two are then swapped ("always
\* inverted"): Learn of fold i is a block, Test its complement.
PrepareFolds(n, cvInitialized, cvType, cvFoldCount, FoldCount, FoldSize, Offset) ==
    LET foldCount == IF cvInitialized THEN cvFoldCount ELSE FoldCount
        blocks == IF cvInitialized THEN Split(n, foldCount) ELSE SplitByUnits(n, FoldSize)
        complements == CalcTrainSubsets(blocks, n)
        \* testSubsets.swap(trainSubsets)
        trainSubsets == blocks
        testSubsets == complements
        midTrain == TakeMiddleElements(Offset, foldCount, trainSubsets)
        midTest == TakeMiddleElements(Offset, foldCount, testSubsets)
    IN  IF foldCount <= 0 THEN Failed("Fold count must be positive integer")
        ELSE IF cvInitialized /\ cvType # "Inverted" THEN Failed("Feature evaluation requires inverted cross-validation")
        ELSE IF ~cvInitialized /\ FoldSize <= 0 THEN Failed("Fold size must be positive integer")
        ELSE IF ~cvInitialized /\ ~(Offset + foldCount <= Len(blocks)) THEN Failed("Dataset permutation logic failed")
        ELSE IF cvInitialized THEN CreateFoldData(trainSubsets, testSubsets)
        ELSE IF ~midTrain.ok \/ ~midTest.ok THEN Failed("Dataset permutation logic failed")
        ELSE CreateFoldData(midTrain.subsets, midTest.subsets)

PrepareTimeSplitFoldsCountsTestBlock(trainTestSubsets, FoldCount, FoldSize, Offset) ==
    LET trainSubsetsCount == Len(trainTestSubsets)
        trainSubsets == SubSeq(trainTestSubsets, 1, trainSubsetsCount)
        mid == TakeMiddleElements(Offset, FoldCount, trainSubsets)
        testSubsets == [i \in 1 .. FoldCount |-> trainTestSubsets[Len(trainTestSubsets)]]
    IN  IF FoldSize <= 0 THEN Failed("Fold size must be positive integer")
        ELSE IF ~(Offset + FoldCount <= trainSubsetsCount) THEN Failed("Dataset permutation logic failed")
        ELSE CreateFoldData(mid.subsets, testSubsets)

\* PrepareTimeSplitFolds on the list the quantile split returned: every fold
\* tests on the last subset, fold i trains on subset Offset + i.
PrepareTimeSplitFolds(trainTestSubsets, FoldCount, FoldSize, Offset) ==
    LET trainSubsetsCount == Len(trainTestSubsets) - 1
        trainSubsets == SubSeq(trainTestSubsets, 1, trainSubsetsCount)
        mid == TakeMiddleElements(Offset, FoldCount, trainSubsets)
        testSubsets == [i \in 1 .. FoldCount |-> trainTestSubsets[Len(trainTestSubsets)]]
    IN  IF FoldSize <= 0 THEN Failed("Fold size must be positive integer")
        ELSE IF ~(Offset + FoldCount <= trainSubsetsCount) THEN Failed("Dataset permutation logic failed")
        ELSE IF ~mid.ok THEN Failed("Dataset permutation logic failed")
        ELSE CreateFoldData(mid.subsets, testSubsets)

\* Lines 820-822 and 889-906 of EvaluateFeaturesImpl: the pool-size checks,
\* then PrepareFolds for a dataset without timestamps.
ImplPrepareFolds(in) ==
    LET foldCount == IF in.cvInitialized THEN in.cvFoldCount ELSE in.FoldCount
    IN  IF ~(in.n > foldCount) \/ ~(in.n > in.FoldSize) THEN Failed("Pool is too small to be split into folds")
        ELSE PrepareFolds(in.n, in.cvInitialized, in.cvType, in.cvFoldCount, in.FoldCount, in.FoldSize, in.Offset)

\* The same for a dataset with timestamps: PrepareTimeSplitFolds.
ImplPrepareTimeSplitFolds(in) ==
    LET foldCount == IF in.cvInitialized THEN in.cvFoldCount ELSE in.FoldCount
    IN  IF ~(in.n > foldCount) \/ ~(in.n > in.FoldSize) THEN Failed("Pool is too small to be split into folds")
        ELSE PrepareTimeSplitFolds(QuantileSplit(in.n, in.q, in.FoldSize), in.FoldCount, in.FoldSize, in.Offset)

\* CountDisjointFolds, for a positive FoldSize option: the sampling units
\* counted are all units, or with timestamps those up to the quantile.
DisjointFoldCount(samplingUnitsCount, absoluteFoldSize) == MaxOf(1, samplingUnitsCount \div absoluteFoldSize)

CountDisjointFoldsZeroFatal(samplingUnitsCount, options) ==
    IF options.FoldSize > 0
    THEN [error |-> "", absoluteFoldSize |-> options.FoldSize, disjointFoldCount |-> DisjointFoldCount(samplingUnitsCount, options.FoldSize)]
    ELSE [error |-> "Fold size must be positive", absoluteFoldSize |-> 0, disjointFoldCount |-> 0]

\* CountDisjointFolds without timestamps, lines 1114-1124: the fold size
\* is the FoldSize option when that is positive, otherwise the
\* RelativeFoldSize share of the sampling units, truncated, which must be
\* positive
CountDisjointFolds(samplingUnitsCount, options) ==
    IF options.FoldSize > 0
    THEN [error |-> "", absoluteFoldSize |-> options.FoldSize, disjointFoldCount |-> DisjointFoldCount(samplingUnitsCount, options.FoldSize)]
    ELSE LET absoluteFoldSize == (options.RelativeFoldSize.num * samplingUnitsCount) \div options.RelativeFoldSize.den
         IN  IF absoluteFoldSize > 0
             THEN [error |-> "", absoluteFoldSize |-> absoluteFoldSize, disjointFoldCount |-> DisjointFoldCount(samplingUnitsCount, absoluteFoldSize)]
             ELSE [error |-> "Relative fold size must be greater than 1 / samplingUnitsCount so that size of each fold is non-zero", absoluteFoldSize |-> 0, disjointFoldCount |-> 0]

\* The arguments EvaluateFeatures hands to a fold range: a positive fold
\* size, and a window Offset + FoldCount within the disjoint fold count.
PfInputs ==
    {in \in [n : 2 .. MaxUnits, HasTimestamp : BOOLEAN, q : 1 .. MaxUnits, cvInitialized : BOOLEAN,
             cvType : {"Classical", "Inverted", "TimeSeries"}, cvFoldCount : 1 .. MaxCvFoldCount,
             FoldCount : 1 .. MaxUnits, FoldSize : 1 .. MaxFoldSize, Offset : 0 .. MaxUnits] :
        /\ in.q <= in.n
        /\ (~in.HasTimestamp => in.q = in.n)
        /\ (~in.cvInitialized => in.cvType = "Inverted" /\ in.cvFoldCount = 1)
        /\ in.Offset + in.FoldCount <= DisjointFoldCount(in.q, in.FoldSize)}

PfIdle == pfPc = "idle" /\ pfInput = <<>> /\ foldsData = <<>> /\ pfError = ""

UiIdle == uiPc = "idle" /\ uiInput = <<>> /\ ignoredFeatures = <<>>

SmIdle == smPc = "idle" /\ smInput = <<>> /\ smSummary = <<>> /\ smAltered = <<>>

CfIdle == cfPc = "idle" /\ cfInput = <<>> /\ cfTasks = <<>> /\ cfFoldsData = <<>> /\ cfDone = <<>>

EfIdle ==
    /\ featureEvalOptions = <<>> /\ cvParams = <<>> /\ saveSnapshot = FALSE /\ constantSets = {} /\ metrics = <<>> /\ snapshotFile = <<>>
    /\ pc = "idle" /\ error = "" /\ summary = <<>> /\ callbacks = <<>> /\ disjointFoldCount = 0 /\ foldRangePart = <<>>
    /\ foldRangeIdx = 0 /\ processedFoldCount = 0 /\ featureSetIdx = 0 /\ isTest = FALSE /\ foldIdx = 0 /\ randCalls = 0
    /\ foldContext = <<>> /\ restarts = 0 /\ trainedLog = <<>> /\ skippedLog = <<>>

InitFolds ==
    /\ pfPc = "call"
    /\ pfInput \in PfInputs
    /\ foldsData = <<>>
    /\ pfError = ""
    /\ UiIdle
    /\ EfIdle
    /\ SmIdle
    /\ CfIdle

CallPrepareFolds ==
    /\ pfPc = "call"
    /\ ~pfInput.HasTimestamp
    /\ LET r == ImplPrepareFolds(pfInput)
       IN  /\ foldsData' = r.foldsData
           /\ pfError' = r.error
           /\ pfPc' = IF r.error = "" THEN "done" ELSE "failed"
    /\ UNCHANGED <<pfInput, uiVars, efVars, smVars, cfVars>>

CallPrepareTimeSplitFolds ==
    /\ pfPc = "call"
    /\ pfInput.HasTimestamp
    /\ LET r == ImplPrepareTimeSplitFolds(pfInput)
       IN  /\ foldsData' = r.foldsData
           /\ pfError' = r.error
           /\ pfPc' = IF r.error = "" THEN "done" ELSE "failed"
    /\ UNCHANGED <<pfInput, uiVars, efVars, smVars, cfVars>>

NextFolds == CallPrepareFolds \/ CallPrepareTimeSplitFolds

SpecFolds == InitFolds /\ [][NextFolds]_vars

\* ---- what the fold claims speak about
\* block k (from 1) of the partition of the call
PfBlocks == IF pfInput.cvInitialized THEN Split(pfInput.n, pfInput.cvFoldCount) ELSE SplitByUnits(pfInput.n, pfInput.FoldSize)

\* the block index of active fold i (from 1)
PfBlockIdx(i) == IF pfInput.cvInitialized THEN i ELSE pfInput.Offset + i

PfPrepared == pfPc = "done" /\ ~pfInput.HasTimestamp

\* C5 as stated: in k-fold and fixed-size mode the test subset of active
\* fold i is block i of the partition and its train subset is the
\* complement of that block.
C5_TestIsBlock == PfPrepared => \A i \in 1 .. Len(foldsData) : foldsData[i].Test = <<PfBlocks[PfBlockIdx(i)]>> /\ foldsData[i].Learn = Units(pfInput.n) \ PfBlocks[PfBlockIdx(i)]

\* C5 amended: the orientation is inverted. The train (Learn) subset of
\* active fold i is block i of the partition and its single test subset is
\* the complement of that block.
C5_LearnIsBlock == PfPrepared => \A i \in 1 .. Len(foldsData) : foldsData[i].Learn = PfBlocks[PfBlockIdx(i)] /\ foldsData[i].Test = <<Units(pfInput.n) \ PfBlocks[PfBlockIdx(i)]>>

C5_Witness == PfPrepared /\ ~pfInput.cvInitialized /\ pfInput.Offset >= 1 /\ Len(foldsData) >= 2 /\ foldsData[2].Learn = PfBlocks[pfInput.Offset + 2]

\* C6: for every fold PrepareFolds produces, the train subset and the test
\* subset are disjoint and together cover all sampling units.
C6_TrainTestPartition == PfPrepared => \A i \in 1 .. Len(foldsData) : Len(foldsData[i].Test) = 1 /\ foldsData[i].Learn \cap foldsData[i].Test[1] = {} /\ foldsData[i].Learn \cup foldsData[i].Test[1] = Units(pfInput.n)

C6_Witness == PfPrepared /\ ~pfInput.cvInitialized /\ pfInput.Offset >= 1 /\ Len(foldsData) >= 2 /\ pfInput.n > pfInput.FoldSize * Len(PfBlocks)

\* C7 as stated: outside time-split mode the test subsets of two distinct
\* active folds of a range are disjoint.
C7_TestsDisjoint == PfPrepared => \A i, j \in 1 .. Len(foldsData) : i # j => foldsData[i].Test[1] \cap foldsData[j].Test[1] = {}

\* C7 amended: outside time-split mode the train subsets of two distinct
\* active folds of a range are disjoint (no sampling unit is trained on by
\* more than one fold of the range); the test subsets, being complements of
\* blocks, are not disjoint in general.
C7_LearnsDisjoint == PfPrepared => \A i, j \in 1 .. Len(foldsData) : i # j => foldsData[i].Learn \cap foldsData[j].Learn = {}

C7_Witness == PfPrepared /\ Len(foldsData) >= 3 /\ foldsData[1].Learn # {} /\ foldsData[3].Learn # {} /\ foldsData[1].Test[1] \cap foldsData[3].Test[1] # {}

\* the list the quantile split returned for the call
PfQuantileSubsets == QuantileSplit(pfInput.n, pfInput.q, pfInput.FoldSize)

\* the time-split call got past the pool-size checks of EvaluateFeaturesImpl
PfTimeSplitCalled == pfInput.HasTimestamp /\ pfPc # "call" /\ pfError # "Pool is too small to be split into folds"

\* C8: in time-split mode every active fold gets the last subset of the
\* quantile split as its test subset and fold i gets training block
\* Offset + i as its train subset; the call fails with the internal error
\* when Offset + FoldCount exceeds the number of training blocks.
C8_TimeSplit ==
    /\ (pfPc = "done" /\ pfInput.HasTimestamp) =>
          /\ Len(foldsData) = pfInput.FoldCount
          /\ \A i \in 1 .. Len(foldsData) : foldsData[i].Test = <<PfQuantileSubsets[Len(PfQuantileSubsets)]>> /\ foldsData[i].Learn = PfQuantileSubsets[pfInput.Offset + i]
          /\ pfInput.Offset + pfInput.FoldCount <= Len(PfQuantileSubsets) - 1
    /\ (PfTimeSplitCalled /\ pfInput.Offset + pfInput.FoldCount > Len(PfQuantileSubsets) - 1) => (pfPc = "failed" /\ pfError = "Dataset permutation logic failed")

C8_Witness == pfPc = "done" /\ pfInput.HasTimestamp /\ pfInput.Offset >= 1 /\ Len(foldsData) >= 2 /\ foldsData[1].Learn # foldsData[2].Learn /\ foldsData[1].Test = foldsData[2].Test /\ foldsData[1].Test[1] # {}

\* ============================================================== projector

\* EFeatureEvalMode and ETrainingKind
FeatureEvalModes == {"OneVsNone", "OneVsAll", "OneVsOthers", "OthersVsAll"}

TrainingKinds == {"Baseline", "Testing"}

\* the union of all candidate feature sets
AllTestedFeatures(testedFeatures) == UNION {SeqRange(testedFeatures[k]) : k \in 1 .. Len(testedFeatures)}

UpdateIgnoredFeaturesBaselineHidesTested(featureEvalMode, trainingKind, testedFeatureSetIdx, testedFeatures) ==
    IF trainingKind = "Testing"
    THEN IF featureEvalMode = "OthersVsAll"
         THEN StdSort(testedFeatures[testedFeatureSetIdx + 1])
         ELSE SetToSeq(AllTestedFeatures(testedFeatures) \ SeqRange(testedFeatures[testedFeatureSetIdx + 1]))
    ELSE IF featureEvalMode \in {"OneVsAll", "OthersVsAll"} THEN <<>>
    ELSE StdSort(testedFeatures[testedFeatureSetIdx + 1])

UpdateIgnoredFeaturesTestingKeepsTested(featureEvalMode, trainingKind, testedFeatureSetIdx, testedFeatures) ==
    IF trainingKind = "Testing"
    THEN IF featureEvalMode = "OthersVsAll"
         THEN StdSort(testedFeatures[testedFeatureSetIdx + 1])
         ELSE SetToSeq(AllTestedFeatures(testedFeatures))
    ELSE IF featureEvalMode \in {"OneVsAll", "OthersVsAll"} THEN <<>>
    ELSE IF featureEvalMode = "OneVsOthers" THEN StdSort(testedFeatures[testedFeatureSetIdx + 1])
    ELSE StdSort(Concat(testedFeatures))

UpdateIgnoredFeaturesTestingHidesAll(featureEvalMode, trainingKind, testedFeatureSetIdx, testedFeatures) ==
    IF trainingKind = "Testing"
    THEN IF featureEvalMode = "OthersVsAll"
         THEN StdSort(testedFeatures[testedFeatureSetIdx + 1])
         ELSE SetToSeq(AllTestedFeatures(testedFeatures))
    ELSE IF featureEvalMode \in {"OneVsAll", "OthersVsAll"} THEN <<>>
    ELSE IF featureEvalMode = "OneVsOthers" THEN StdSort(testedFeatures[testedFeatureSetIdx + 1])
    ELSE StdSort(Concat(testedFeatures))

\* UpdateIgnoredFeaturesInLearn, lines 548-593: the additionally ignored
\* features as the vector handed to GetFeaturesSubset (sorted when not
\* empty; the THashSet of the Testing branch has no duplicates, the
\* OneVsNone Baseline branch concatenates the sets as they are).
UpdateIgnoredFeaturesInLearn(featureEvalMode, trainingKind, testedFeatureSetIdx, testedFeatures) ==
    IF trainingKind = "Testing"
    THEN IF featureEvalMode = "OthersVsAll"
         THEN StdSort(testedFeatures[testedFeatureSetIdx + 1])
         ELSE SetToSeq(AllTestedFeatures(testedFeatures) \ SeqRange(testedFeatures[testedFeatureSetIdx + 1]))
    ELSE IF featureEvalMode \in {"OneVsAll", "OthersVsAll"} THEN <<>>
    ELSE IF featureEvalMode = "OneVsOthers" THEN StdSort(testedFeatures[testedFeatureSetIdx + 1])
    ELSE StdSort(Concat(testedFeatures))

\* a feature set: distinct feature indices (listed in increasing order)
FeatureSetChoices == {SetToSeq(S) : S \in SUBSET (0 .. MaxFeature) \ {{}}}

\* FeaturesToEvaluate of a call: the caller loops over a non-empty list
FeaturesToEvaluateChoices == UNION {[1 .. k -> FeatureSetChoices] : k \in 1 .. MaxFeatureSets}

UiInputs == {in \in [FeatureEvalMode : FeatureEvalModes, trainingKind : TrainingKinds, testedFeatureSetIdx : 0 .. (MaxFeatureSets - 1), FeaturesToEvaluate : FeaturesToEvaluateChoices] : in.testedFeatureSetIdx < Len(in.FeaturesToEvaluate)}

InitProjector ==
    /\ uiPc = "call"
    /\ uiInput \in UiInputs
    /\ ignoredFeatures = <<>>
    /\ PfIdle
    /\ EfIdle
    /\ SmIdle
    /\ CfIdle

CallUpdateIgnoredFeaturesInLearn ==
    /\ uiPc = "call"
    /\ ignoredFeatures' = UpdateIgnoredFeaturesInLearn(uiInput.FeatureEvalMode, uiInput.trainingKind, uiInput.testedFeatureSetIdx, uiInput.FeaturesToEvaluate)
    /\ uiPc' = "done"
    /\ UNCHANGED <<uiInput, pfVars, efVars, smVars, cfVars>>

NextProjector == CallUpdateIgnoredFeaturesInLearn

SpecProjector == InitProjector /\ [][NextProjector]_vars

\* the feature set under test of the call
UiTestedSet == SeqRange(uiInput.FeaturesToEvaluate[uiInput.testedFeatureSetIdx + 1])

\* C10: for Baseline the additionally hidden features are none in OneVsAll
\* and OthersVsAll, exactly the tested feature set in OneVsOthers, and
\* exactly the union of all candidate feature sets in OneVsNone.
C10_BaselineProjection ==
    (uiPc = "done" /\ uiInput.trainingKind = "Baseline") =>
        /\ uiInput.FeatureEvalMode \in {"OneVsAll", "OthersVsAll"} => SeqRange(ignoredFeatures) = {}
        /\ uiInput.FeatureEvalMode = "OneVsOthers" => SeqRange(ignoredFeatures) = UiTestedSet
        /\ uiInput.FeatureEvalMode = "OneVsNone" => SeqRange(ignoredFeatures) = AllTestedFeatures(uiInput.FeaturesToEvaluate)

C10_Witness == uiPc = "done" /\ uiInput.trainingKind = "Baseline" /\ uiInput.FeatureEvalMode = "OneVsNone" /\ Len(uiInput.FeaturesToEvaluate) >= 2 /\ SeqRange(ignoredFeatures) # UiTestedSet /\ UiTestedSet # {}

\* C11 as stated: for Testing the additionally hidden features are exactly
\* the tested feature set in OthersVsAll and none in OneVsAll, OneVsNone
\* and OneVsOthers, also for lists of two or more feature sets.
C11_TestingHidesNothing ==
    (uiPc = "done" /\ uiInput.trainingKind = "Testing") =>
        /\ uiInput.FeatureEvalMode = "OthersVsAll" => SeqRange(ignoredFeatures) = UiTestedSet
        /\ uiInput.FeatureEvalMode # "OthersVsAll" => SeqRange(ignoredFeatures) = {}

\* C11, amended: for Testing the additionally hidden features are exactly
\* the tested feature set in OthersVsAll; in OneVsAll, OneVsNone and
\* OneVsOthers they are exactly the features of the other candidate sets
\* that are not in the tested set, each listed once (none when the tested
\* set is the only one or contains all the others).
C11_TestingHidesOtherSets ==
    (uiPc = "done" /\ uiInput.trainingKind = "Testing") =>
        /\ uiInput.FeatureEvalMode = "OthersVsAll" => SeqRange(ignoredFeatures) = UiTestedSet
        /\ uiInput.FeatureEvalMode # "OthersVsAll" =>
            /\ SeqRange(ignoredFeatures) = AllTestedFeatures(uiInput.FeaturesToEvaluate) \ UiTestedSet
            /\ Len(ignoredFeatures) = Cardinality(SeqRange(ignoredFeatures))

C11_Witness == uiPc = "done" /\ uiInput.trainingKind = "Testing" /\ uiInput.FeatureEvalMode = "OneVsAll" /\ Len(uiInput.FeaturesToEvaluate) >= 2 /\ ignoredFeatures # <<>> /\ SeqRange(ignoredFeatures) \cap UiTestedSet = {}

\* C34: in OneVsNone, OneVsAll and OneVsOthers the features additionally
\* hidden for a Testing run are the union of all candidate feature sets
\* minus the tested set: no feature of the tested set is among them, and
\* there are none when the tested set is the only candidate
C34_TestingHidesUnionMinusTested ==
    (uiPc = "done" /\ uiInput.trainingKind = "Testing" /\ uiInput.FeatureEvalMode # "OthersVsAll") =>
        /\ SeqRange(ignoredFeatures) = AllTestedFeatures(uiInput.FeaturesToEvaluate) \ UiTestedSet
        /\ SeqRange(ignoredFeatures) \cap UiTestedSet = {}
        /\ Len(uiInput.FeaturesToEvaluate) = 1 => ignoredFeatures = <<>>

C34_Witness ==
    /\ uiPc = "done" /\ uiInput.trainingKind = "Testing" /\ uiInput.FeatureEvalMode = "OneVsOthers"
    /\ Len(uiInput.FeaturesToEvaluate) = 2 /\ uiInput.testedFeatureSetIdx = 1
    /\ SeqRange(uiInput.FeaturesToEvaluate[1]) \cap UiTestedSet # {}
    /\ ignoredFeatures # <<>>

\* ============================================================ orchestrator

\* TMaybe: empty, or holding one value
Nothing == <<>>

Just(v) == <<v>>

Defined(m) == m # <<>>

GetRef(m) == m[1]

\* index of MetricsHistory / BestMetrics for a training kind
KindIdx(t) == IF t THEN 2 ELSE 1

\* ---- TFeatureEvaluationSummary

\* the default-constructed summary of EvaluateFeatures, line 1170
EmptySummary == [MetricTypes |-> <<>>, MetricNames |-> <<>>, FeatureSets |-> <<>>, MetricsHistory |-> <<>>, FeatureStrengths |-> <<>>, RegularFeatureStrengths |-> <<>>, BestMetrics |-> <<>>, BestBaselineIterations |-> <<>>, WxTest |-> <<>>, AverageMetricDelta |-> <<>>]

HasHeaderInfo(s) == s.MetricNames # <<>>

GetFeatureSetCountOfList(s) == Len(s.FeatureSets)

GetFeatureSetCount(s) == MaxOf(1, Len(s.FeatureSets))

\* TVector::resize: keep the first n elements, pad with empty vectors
Resize(v, n) == [k \in 1 .. n |-> IF k <= Len(v) THEN v[k] ELSE <<>>]

\* ResizeRank2(dim1, dim2, v)
ResizeRank2(dim1, dim2, v) == [a \in 1 .. dim1 |-> Resize(IF a <= Len(v) THEN v[a] ELSE <<>>, dim2)]

\* GetBestValueType: for every metric whether its best value is its lower
\* bound (Min) or its upper bound (Max)
GetBestValueType(metricList) == [m \in 1 .. Len(metricList) |-> metricList[m].BestValue]

\* the CB_ENSURE of GetBestValueType, lines 86-89
GetBestValueTypeError(metricList) == IF \A m \in 1 .. Len(metricList) : metricList[m].BestValue \in {"Min", "Max"} THEN "" ELSE "Metric has neither lower, nor upper bound"

SetHeaderInfoOneRow(s, metricList, featureSets) ==
    [s EXCEPT !.MetricTypes = GetBestValueType(metricList),
              !.MetricNames = [m \in 1 .. Len(metricList) |-> metricList[m].Description],
              !.FeatureSets = featureSets,
              !.MetricsHistory = ResizeRank2(2, 1, s.MetricsHistory),
              !.FeatureStrengths = ResizeRank2(2, 1, s.FeatureStrengths),
              !.RegularFeatureStrengths = ResizeRank2(2, 1, s.RegularFeatureStrengths),
              !.BestMetrics = ResizeRank2(2, 1, s.BestMetrics),
              !.BestBaselineIterations = Resize(s.BestBaselineIterations, 1)]

\* SetHeaderInfo: metric types and names, feature sets, and the shape of
\* the tables
SetHeaderInfo(s, metricList, featureSets) ==
    LET featureSetCount == MaxOf(1, Len(featureSets))
    IN  [s EXCEPT !.MetricTypes = GetBestValueType(metricList),
                  !.MetricNames = [m \in 1 .. Len(metricList) |-> metricList[m].Description],
                  !.FeatureSets = featureSets,
                  !.MetricsHistory = ResizeRank2(2, featureSetCount, s.MetricsHistory),
                  !.FeatureStrengths = ResizeRank2(2, featureSetCount, s.FeatureStrengths),
                  !.RegularFeatureStrengths = ResizeRank2(2, featureSetCount, s.RegularFeatureStrengths),
                  !.BestMetrics = ResizeRank2(2, featureSetCount, s.BestMetrics),
                  !.BestBaselineIterations = Resize(s.BestBaselineIterations, featureSetCount)]

\* the loop of GetBestIterationInFold from the given iteration on
\* (iterations are counted from 0, metricValues[iteration + 1] is its row)
RECURSIVE BestIterationFrom(_, _, _, _)
BestIterationFrom(bestValueType, metricValues, iteration, bestIteration) ==
    IF ~(iteration < Len(metricValues)) THEN bestIteration
    ELSE IF bestValueType[1] = "Min"
    THEN BestIterationFrom(bestValueType, metricValues, iteration + 1, IF metricValues[iteration + 1][1] < metricValues[bestIteration + 1][1] THEN iteration ELSE bestIteration)
    ELSE BestIterationFrom(bestValueType, metricValues, iteration + 1, IF metricValues[iteration + 1][1] > metricValues[bestIteration + 1][1] THEN iteration ELSE bestIteration)

GetBestIterationInFoldLast(bestValueType, metricValues) == Len(metricValues) - 1

\* GetBestIterationInFold: the first iteration with the best value of
\* metric 0
GetBestIterationInFold(bestValueType, metricValues) == BestIterationFrom(bestValueType, metricValues, 1, 0)

\* AppendFeatureSetMetrics: the fold's best iteration (recorded for a
\* Baseline fold), and for every metric the fold's value at that iteration
AppendFeatureSetMetrics(s, t, j, metricValuesOnFold) ==
    LET bestIteration == GetBestIterationInFold(s.MetricTypes, metricValuesOnFold)
        metricCount == Len(s.MetricTypes)
        resized == Resize(s.BestMetrics[KindIdx(t)][j + 1], metricCount)
    IN  [s EXCEPT !.BestBaselineIterations[j + 1] = IF t THEN @ ELSE Append(@, bestIteration),
                  !.BestMetrics[KindIdx(t)][j + 1] = [m \in 1 .. metricCount |-> Append(resized[m], metricValuesOnFold[bestIteration + 1][m])]]

\* Accumulate(v, 0.0)
RECURSIVE Accumulate(_)
Accumulate(v) == IF v = <<>> THEN 0 ELSE Head(v) + Accumulate(Tail(v))

\* CalcFeatureEffect on the fold's model: a value the trained model fixes,
\* here the model's last metric values
CalcFeatureEffect(metricValuesOnFold) == metricValuesOnFold[Len(metricValuesOnFold)]

\* CalcRegularFeatureEffect: the effect summed up per regular feature
CalcRegularFeatureEffect(effect) == <<Accumulate(effect)>>

\* lines 988-1007 of trainFullModels, with both feature strength files
\* requested: the fold's feature strengths are appended
AppendFeatureStrengths(s, t, j, effect) == [s EXCEPT !.FeatureStrengths[KindIdx(t)][j + 1] = Append(@, effect), !.RegularFeatureStrengths[KindIdx(t)][j + 1] = Append(@, CalcRegularFeatureEffect(effect))]

\* lines 982-1007 of trainFullModels: the fold's history is stored, its
\* best metrics are appended, and so are its feature strengths
StoreFoldResult(s, t, j, metricValuesOnFold) == AppendFeatureStrengths(AppendFeatureSetMetrics([s EXCEPT !.MetricsHistory[KindIdx(t)][j + 1] = Append(@, metricValuesOnFold)], t, j, metricValuesOnFold), t, j, CalcFeatureEffect(metricValuesOnFold))

CloneBaselineMetricsOnly(s, j) == [s EXCEPT !.BestMetrics[1][j + 1] = s.BestMetrics[1][1]]

\* lines 1037-1038: the shared Baseline results are copied from set 0
CloneBaseline(s, j) == [s EXCEPT !.BestMetrics[1][j + 1] = s.BestMetrics[1][1], !.BestBaselineIterations[j + 1] = s.BestBaselineIterations[1]]

CopyBaselineZeroToTesting(s, j, baselineIdx) == [s EXCEPT !.MetricsHistory[2][j + 1] = s.MetricsHistory[1][1], !.FeatureStrengths[2][j + 1] = s.FeatureStrengths[1][1], !.RegularFeatureStrengths[2][j + 1] = s.RegularFeatureStrengths[1][1], !.BestMetrics[2][j + 1] = s.BestMetrics[1][1]]

\* lines 1053-1056: Testing of a constant feature set equals its Baseline
CopyBaselineToTesting(s, j, baselineIdx) == [s EXCEPT !.MetricsHistory[2][j + 1] = s.MetricsHistory[1][baselineIdx + 1], !.FeatureStrengths[2][j + 1] = s.FeatureStrengths[1][baselineIdx + 1], !.RegularFeatureStrengths[2][j + 1] = s.RegularFeatureStrengths[1][baselineIdx + 1], !.BestMetrics[2][j + 1] = s.BestMetrics[1][baselineIdx + 1]]

\* a quotient of doubles, kept exact as numerator and denominator
Quotient(a, b) == [num |-> a, den |-> b]

\* a - b for two quotients
Difference(a, b) == [num |-> a.num * b.den - b.num * a.den, den |-> a.den * b.den]

\* comparison of two quotients with positive denominators
QuotientEqual(a, b) == a.num * b.den = b.num * a.den

QuotientLess(a, b) == a.num * b.den < b.num * a.den

\* ::WxTest(baseline, tested).PValue: determined by the paired samples
WxTest(baseline, tested) == [baseline |-> baseline, tested |-> tested]

\* the locals of CalcWxTestAndAverageDelta for a feature set
BaselineMetricsOf(s, j) == s.BestMetrics[1][j + 1]

TestedMetricsOfTesting(s, j) == Resize(s.BestMetrics[2][j + 1], Len(s.MetricTypes))

TestedMetricsOf(s, j) == IF s.FeatureSets = <<>> THEN BaselineMetricsOf(s, j) ELSE s.BestMetrics[2][j + 1]

\* foldCount of line 157: baselineMetrics.size()
FoldCountOfAverages(s, j) == Len(BaselineMetricsOf(s, j))

BaselineAverage(s, j, m) == Quotient(Accumulate(BaselineMetricsOf(s, j)[m]), FoldCountOfAverages(s, j))

TestedAverage(s, j, m) == Quotient(Accumulate(TestedMetricsOf(s, j)[m]), FoldCountOfAverages(s, j))

AverageDeltaUnsigned(s, j, m) == Difference(TestedAverage(s, j, m), BaselineAverage(s, j, m))

\* lines 161-165: the sign of the delta follows the metric's type
AverageDelta(s, j, m) ==
    IF s.MetricTypes[m] = "Min" THEN Difference(BaselineAverage(s, j, m), TestedAverage(s, j, m))
    ELSE Difference(TestedAverage(s, j, m), BaselineAverage(s, j, m))

\* CalcWxTestAndAverageDelta
CalcWxTestAndAverageDelta(s) ==
    LET featureSetCount == GetFeatureSetCount(s)
        metricCount == Len(s.MetricTypes)
    IN  [s EXCEPT !.WxTest = [k \in 1 .. featureSetCount |-> WxTest(BaselineMetricsOf(s, k - 1)[1], TestedMetricsOf(s, k - 1)[1])],
                  !.AverageMetricDelta = [k \in 1 .. featureSetCount |-> [m \in 1 .. metricCount |-> AverageDelta(s, k - 1, m)]]]

\* ---- TFeatureEvaluationCallbacks

\* the constructor, lines 711-719 and 785-796
NewCallbacks(evalFeatureOptions) == [FoldRangeBegin |-> Nothing, FeatureSetIndex |-> Nothing, IsTest |-> Nothing, FoldIndex |-> Nothing, EvalFeatureOptions |-> evalFeatureOptions, IsNextLoadValid |-> FALSE]

\* operator< of std::array<ui32, 4>
RECURSIVE ArrayLess(_, _)
ArrayLess(a, b) == IF a = <<>> THEN FALSE ELSE IF Head(a) # Head(b) THEN Head(a) < Head(b) ELSE ArrayLess(Tail(a), Tail(b))

\* conversion of bool to ui32 in the std::array initializer
BoolToUi32(t) == IF t THEN 1 ELSE 0

OnSaveSnapshotNextFold(cb, s) == <<s, cb.FoldRangeBegin, cb.FeatureSetIndex, cb.IsTest, Just(GetRef(cb.FoldIndex) + 1), cb.EvalFeatureOptions>>

\* OnSaveSnapshot: Summary->Save, then SaveMany of the four marker fields
\* and the options, in this order
OnSaveSnapshot(cb, s) == <<s, cb.FoldRangeBegin, cb.FeatureSetIndex, cb.IsTest, cb.FoldIndex, cb.EvalFeatureOptions>>

OnLoadSnapshotKeepsFlag(cb, s, snapshot) ==
    IF ~cb.IsNextLoadValid THEN [loaded |-> FALSE, error |-> "", callbacks |-> cb, summary |-> s]
    ELSE LET loadedCb == [cb EXCEPT !.FoldRangeBegin = snapshot[2], !.FeatureSetIndex = snapshot[3], !.IsTest = snapshot[4], !.FoldIndex = snapshot[5]]
         IN  IF snapshot[6] # cb.EvalFeatureOptions
             THEN [loaded |-> FALSE, error |-> "Current feaure evaluation options differ from options in snapshot", callbacks |-> loadedCb, summary |-> snapshot[1]]
             ELSE [loaded |-> TRUE, error |-> "", callbacks |-> loadedCb, summary |-> snapshot[1]]

OnLoadSnapshotNoOptionsCheck(cb, s, snapshot) ==
    IF ~cb.IsNextLoadValid THEN [loaded |-> FALSE, error |-> "", callbacks |-> cb, summary |-> s]
    ELSE LET loadedCb == [cb EXCEPT !.FoldRangeBegin = snapshot[2], !.FeatureSetIndex = snapshot[3], !.IsTest = snapshot[4], !.FoldIndex = snapshot[5]]
         IN  [loaded |-> TRUE, error |-> "", callbacks |-> [loadedCb EXCEPT !.EvalFeatureOptions = snapshot[6], !.IsNextLoadValid = FALSE], summary |-> snapshot[1]]

OnLoadSnapshotMarkerReversed(cb, s, snapshot) ==
    IF ~cb.IsNextLoadValid THEN [loaded |-> FALSE, error |-> "", callbacks |-> cb, summary |-> s]
    ELSE LET loadedCb == [cb EXCEPT !.FoldRangeBegin = snapshot[5], !.FeatureSetIndex = snapshot[3], !.IsTest = snapshot[4], !.FoldIndex = snapshot[2]]
         IN  IF snapshot[6] # cb.EvalFeatureOptions
             THEN [loaded |-> FALSE, error |-> "Current feaure evaluation options differ from options in snapshot", callbacks |-> loadedCb, summary |-> snapshot[1]]
             ELSE [loaded |-> TRUE, error |-> "", callbacks |-> [loadedCb EXCEPT !.EvalFeatureOptions = snapshot[6], !.IsNextLoadValid = FALSE], summary |-> snapshot[1]]

\* OnLoadSnapshot: nothing when no load is pending; otherwise the summary
\* and the marker are read in the order they were written, the options are
\* compared (CB_ENSURE), and the pending load is cleared
OnLoadSnapshot(cb, s, snapshot) ==
    IF ~cb.IsNextLoadValid THEN [loaded |-> FALSE, error |-> "", callbacks |-> cb, summary |-> s]
    ELSE LET loadedCb == [cb EXCEPT !.FoldRangeBegin = snapshot[2], !.FeatureSetIndex = snapshot[3], !.IsTest = snapshot[4], !.FoldIndex = snapshot[5]]
         IN  IF snapshot[6] # cb.EvalFeatureOptions
             THEN [loaded |-> FALSE, error |-> "Current feaure evaluation options differ from options in snapshot", callbacks |-> loadedCb, summary |-> snapshot[1]]
             ELSE [loaded |-> TRUE, error |-> "", callbacks |-> [loadedCb EXCEPT !.EvalFeatureOptions = snapshot[6], !.IsNextLoadValid = FALSE], summary |-> snapshot[1]]

\* LoadSnapshot: IsNextLoadValid = true; CheckedLoad(OnLoadSnapshot), whose
\* exception leaves the function; IsNextLoadValid = true
LoadSnapshot(cb, s, snapshot) ==
    LET r == OnLoadSnapshot([cb EXCEPT !.IsNextLoadValid = TRUE], s, snapshot)
    IN  IF r.error # "" THEN r ELSE [r EXCEPT !.callbacks.IsNextLoadValid = TRUE]

HaveEvalFeatureSummaryAtOrBefore(cb, foldRangeBegin, featureSetIndex, t, foldIndex) ==
    IF ~cb.IsNextLoadValid THEN [error |-> "", haveSummary |-> FALSE]
    ELSE IF ~(Defined(cb.FoldRangeBegin) /\ Defined(cb.FeatureSetIndex) /\ Defined(cb.IsTest) /\ Defined(cb.FoldIndex))
    THEN [error |-> "No fold range begin, or feature set index, or baseline flag, or fold index in snapshot", haveSummary |-> FALSE]
    ELSE LET progress == <<foldRangeBegin, featureSetIndex, BoolToUi32(t), foldIndex>>
             progressFromSnapshot == <<GetRef(cb.FoldRangeBegin), GetRef(cb.FeatureSetIndex), BoolToUi32(GetRef(cb.IsTest)), GetRef(cb.FoldIndex)>>
         IN  [error |-> "", haveSummary |-> ArrayLess(progress, progressFromSnapshot) \/ progress = progressFromSnapshot]

\* HaveEvalFeatureSummary: false when no load is pending; otherwise whether
\* the tuple is lexicographically before the marker of the snapshot
HaveEvalFeatureSummary(cb, foldRangeBegin, featureSetIndex, t, foldIndex) ==
    IF ~cb.IsNextLoadValid THEN [error |-> "", haveSummary |-> FALSE]
    ELSE IF ~(Defined(cb.FoldRangeBegin) /\ Defined(cb.FeatureSetIndex) /\ Defined(cb.IsTest) /\ Defined(cb.FoldIndex))
    THEN [error |-> "No fold range begin, or feature set index, or baseline flag, or fold index in snapshot", haveSummary |-> FALSE]
    ELSE LET progress == <<foldRangeBegin, featureSetIndex, BoolToUi32(t), foldIndex>>
             progressFromSnapshot == <<GetRef(cb.FoldRangeBegin), GetRef(cb.FeatureSetIndex), BoolToUi32(GetRef(cb.IsTest)), GetRef(cb.FoldIndex)>>
         IN  [error |-> "", haveSummary |-> ArrayLess(progress, progressFromSnapshot)]

\* ---- the run

\* the metrics CreateMetrics returns: description and best value type
Metrics == <<[Description |-> "Logloss", BestValue |-> "Min"], [Description |-> "AUC", BestValue |-> "Max"]>>

\* the metrics of a process: those, or a second metric without a bound
MetricChoices == {Metrics, <<[Description |-> "Logloss", BestValue |-> "Min"], [Description |-> "Custom", BestValue |-> "Undefined"]>>}

MinWithUi32DifferenceWholeRange(d, a, b) == d

MinWithUi32DifferenceZero(d, a, b) == 0

\* Min(d, a - b) in ui32 arithmetic: a difference below zero wraps around
\* to a number above every fold count, and the minimum is then d
MinWithUi32Difference(d, a, b) == IF a - b < 0 THEN d ELSE MinOf(d, a - b)

\* what the trainer leaves in foldContext.MetricValuesOnTest for a fold,
\* [iteration][metric]: determined by the fold's data (range, feature set,
\* kind, fold) and by the random seed of the fold context
TrainResult(foldRangeBegin, j, t, foldIndex, seed) == [it \in 1 .. IterationCount |-> [m \in 1 .. Len(metrics) |-> foldRangeBegin + 2 * j + 3 * BoolToUi32(t) + 5 * foldIndex + seed * (it + m) + (it % 2)]]

\* the effective fold count of lines 820 and 1149
EffectiveFoldCount(cv, options) == IF cv.Initialized THEN cv.FoldCount ELSE options.FoldCount

\* offsetInRange of line 929
OffsetInRange == IF cvParams.Initialized THEN 0 ELSE foldRangePart.Offset

FoldRangeBeginOfFirstRange == (featureEvalOptions.Offset \div disjointFoldCount) * disjointFoldCount

\* foldRangeBegin of line 1195
FoldRangeBegin == foldRangeIdx * disjointFoldCount

FeatureSetsSize == Len(featureEvalOptions.FeaturesToEvaluate)

\* useCommonBaseline of line 1025
UseCommonBaseline == featureEvalOptions.FeatureEvalMode # "OneVsOthers"

\* the tuple trainFullModels is at
CurrentTuple == <<FoldRangeBegin, featureSetIdx, BoolToUi32(isTest), OffsetInRange + foldIdx>>

\* RelativeFoldSize, a float, in eighths
RelativeFoldSizeChoices == {Quotient(k, 8) : k \in 0 .. MaxRelativeFoldSize}

\* the options; RelativeFoldSize is read only when FoldSize is 0 (line
\* 1114), and is drawn freely in that case only
OptionChoices == {o \in [Offset : 0 .. MaxOffset, FoldCount : 0 .. MaxFoldCount, FoldSize : 0 .. MaxFoldSize, RelativeFoldSize : RelativeFoldSizeChoices, FeatureEvalMode : FeatureEvalModes, FeaturesToEvaluate : {[k \in 1 .. n |-> <<k - 1>>] : n \in 0 .. MaxFeatureSets}] : o.FoldSize > 0 => o.RelativeFoldSize = Quotient(0, 8)}

CvChoices == [Initialized : {FALSE}, FoldCount : {0}, Type : {"Inverted"}, Shuffle : BOOLEAN] \cup [Initialized : {TRUE}, FoldCount : 0 .. MaxFoldCount, Type : {"Inverted"}, Shuffle : BOOLEAN]

\* the state of a process that has just entered EvaluateFeatures
ProcessStart ==
    /\ pc = "start" /\ error = "" /\ summary = EmptySummary /\ callbacks = NewCallbacks(featureEvalOptions)
    /\ disjointFoldCount = 0 /\ foldRangePart = [FoldSize |-> 0, Offset |-> 0, FoldCount |-> 0]
    /\ foldRangeIdx = 0 /\ processedFoldCount = 0 /\ featureSetIdx = 0 /\ isTest = FALSE /\ foldIdx = 0 /\ randCalls = 0
    /\ foldContext = Nothing /\ trainedLog = <<>> /\ skippedLog = <<>>

Init ==
    /\ featureEvalOptions \in OptionChoices
    /\ cvParams \in CvChoices
    /\ cvParams.Initialized => cvParams.FoldCount = featureEvalOptions.FoldCount
    /\ saveSnapshot \in BOOLEAN
    /\ metrics \in MetricChoices
    /\ constantSets \in SUBSET (0 .. (FeatureSetsSize - 1))
    /\ snapshotFile = Nothing
    /\ restarts = 0
    /\ ProcessStart
    /\ PfIdle
    /\ UiIdle
    /\ SmIdle
    /\ CfIdle

Fail(msg) ==
    /\ pc' = "failed"
    /\ error' = msg

TooFewDisjointFoldsShuffled(d, offset, foldCount, shuffle) == d < offset + foldCount

\* lines 1157-1165: the window does not fit into the disjoint folds and
\* the dataset is not shuffled
TooFewDisjointFolds(d, offset, foldCount, shuffle) == d < offset + foldCount /\ ~shuffle

\* EvaluateFeatures, lines 1149-1186: validation, the disjoint fold count,
\* the callbacks, the snapshot load, and the first fold range
EvaluateFeaturesBegin ==
    /\ pc = "start"
    /\ LET foldCount == EffectiveFoldCount(cvParams, featureEvalOptions)
           offset == featureEvalOptions.Offset
           counted == CountDisjointFolds(PoolUnits, featureEvalOptions)
           absoluteFoldSize == counted.absoluteFoldSize
           d == counted.disjointFoldCount
           cb == NewCallbacks(featureEvalOptions)
           load == IF saveSnapshot /\ Defined(snapshotFile)
                   THEN LoadSnapshot(cb, EmptySummary, GetRef(snapshotFile).callbacksPart)
                   ELSE [loaded |-> FALSE, error |-> "", callbacks |-> cb, summary |-> EmptySummary]
       IN  IF ~(foldCount > 0)
           THEN Fail("Fold count must be positive integer") /\ UNCHANGED <<summary, callbacks, disjointFoldCount, foldRangePart, foldRangeIdx>>
           ELSE IF counted.error # ""
           THEN Fail(counted.error) /\ UNCHANGED <<summary, callbacks, disjointFoldCount, foldRangePart, foldRangeIdx>>
           ELSE IF TooFewDisjointFolds(d, offset, foldCount, cvParams.Shuffle)
           THEN Fail("Dataset contains too few objects or groups to evaluate features without shuffling") /\ disjointFoldCount' = d /\ UNCHANGED <<summary, callbacks, foldRangePart, foldRangeIdx>>
           ELSE IF load.error # ""
           THEN Fail(load.error) /\ disjointFoldCount' = d /\ summary' = load.summary /\ callbacks' = load.callbacks /\ UNCHANGED <<foldRangePart, foldRangeIdx>>
           ELSE /\ pc' = "loop"
                /\ error' = ""
                /\ disjointFoldCount' = d
                /\ summary' = load.summary
                /\ callbacks' = load.callbacks
                /\ foldRangePart' = [FoldSize |-> absoluteFoldSize, Offset |-> offset % d, FoldCount |-> MinOf(d - (offset % d), foldCount)]
                /\ foldRangeIdx' = offset \div d
    /\ UNCHANGED <<inVars, snapshotFile, processedFoldCount, featureSetIdx, isTest, foldIdx, randCalls, foldContext, histVars, pfVars, uiVars, smVars, cfVars>>

\* the fold count of EvaluateFeaturesImpl, line 820
ImplFoldCount == IF cvParams.Initialized THEN cvParams.FoldCount ELSE foldRangePart.FoldCount

\* lines 820-822 and 889-906 for the fold range EvaluateFeatures is at
RangeFolds == ImplPrepareFolds([n |-> PoolUnits, cvInitialized |-> cvParams.Initialized, cvType |-> cvParams.Type, cvFoldCount |-> cvParams.FoldCount, FoldCount |-> foldRangePart.FoldCount, FoldSize |-> foldRangePart.FoldSize, Offset |-> foldRangePart.Offset])

\* line 1187 taken, and EvaluateFeaturesImpl up to line 929: the pool-size
\* checks, a fresh generator, the folds, and the summary header
EvaluateFeaturesImplBegin ==
    /\ pc = "loop"
    /\ processedFoldCount < EffectiveFoldCount(cvParams, featureEvalOptions)
    /\ LET folds == RangeFolds
       IN  IF folds.error # ""
           THEN Fail(folds.error) /\ UNCHANGED <<summary, featureSetIdx, isTest, foldIdx, randCalls>>
           ELSE IF ~HasHeaderInfo(summary) /\ GetBestValueTypeError(metrics) # ""
           THEN Fail(GetBestValueTypeError(metrics)) /\ randCalls' = 0 /\ UNCHANGED <<summary, featureSetIdx, isTest, foldIdx>>
           ELSE /\ error' = ""
                /\ randCalls' = 0
                /\ summary' = IF HasHeaderInfo(summary) THEN summary ELSE SetHeaderInfo(summary, metrics, featureEvalOptions.FeaturesToEvaluate)
                /\ featureSetIdx' = 0
                /\ isTest' = FALSE
                /\ foldIdx' = 0
                /\ pc' = IF FeatureSetsSize = 0 THEN "fold" ELSE "set"
    /\ UNCHANGED <<inVars, snapshotFile, callbacks, disjointFoldCount, foldRangePart, foldRangeIdx, processedFoldCount, foldContext, histVars, pfVars, uiVars, smVars, cfVars>>

\* line 1187 not taken: CalcWxTestAndAverageDelta and the return, lines
\* 1206-1207
EvaluateFeaturesEnd ==
    /\ pc = "loop"
    /\ ~(processedFoldCount < EffectiveFoldCount(cvParams, featureEvalOptions))
    /\ pc' = "done"
    /\ summary' = CalcWxTestAndAverageDelta(summary)
    /\ UNCHANGED <<inVars, snapshotFile, error, callbacks, disjointFoldCount, foldRangePart, foldRangeIdx, processedFoldCount, featureSetIdx, isTest, foldIdx, randCalls, foldContext, histVars, pfVars, uiVars, smVars, cfVars>>

\* the end of one iteration of the feature set loop, lines 1026 and 1059
NextFeatureSet ==
    IF featureSetIdx + 1 < FeatureSetsSize
    THEN featureSetIdx' = featureSetIdx + 1 /\ pc' = "set"
    ELSE featureSetIdx' = featureSetIdx /\ pc' = "logs"

\* the end of one iteration of the fold loop of trainFullModels, line 938,
\* and the return to its caller when the loop is over
NextFold ==
    IF foldIdx + 1 < ImplFoldCount
    THEN foldIdx' = foldIdx + 1 /\ featureSetIdx' = featureSetIdx /\ pc' = "fold"
    ELSE /\ foldIdx' = foldIdx
         /\ IF FeatureSetsSize = 0 THEN featureSetIdx' = featureSetIdx /\ pc' = "logs"
            ELSE IF ~isTest THEN featureSetIdx' = featureSetIdx /\ pc' = "testing"
            ELSE NextFeatureSet

\* lines 1027-1039: Baseline of a feature set is trained, or cloned from
\* feature set 0 when the baseline is shared
FeatureSetBaseline ==
    /\ pc = "set"
    /\ LET haveBaseline == featureSetIdx > 0 /\ UseCommonBaseline
       IN  IF ~haveBaseline
           THEN isTest' = FALSE /\ foldIdx' = 0 /\ pc' = "fold" /\ UNCHANGED summary
           ELSE summary' = CloneBaseline(summary, featureSetIdx) /\ pc' = "testing" /\ UNCHANGED <<isTest, foldIdx>>
    /\ UNCHANGED <<inVars, snapshotFile, error, callbacks, disjointFoldCount, foldRangePart, foldRangeIdx, processedFoldCount, featureSetIdx, randCalls, foldContext, histVars, pfVars, uiVars, smVars, cfVars>>

\* HaveFeaturesToEvaluate on the Testing projection of a feature set
HaveFeaturesToEvaluate(j) == j \notin constantSets

\* lines 1041-1057: Testing of a feature set is trained, or copied from its
\* Baseline when the projection leaves no feature to evaluate
FeatureSetTesting ==
    /\ pc = "testing"
    /\ IF HaveFeaturesToEvaluate(featureSetIdx)
       THEN isTest' = TRUE /\ foldIdx' = 0 /\ pc' = "fold" /\ UNCHANGED <<summary, featureSetIdx>>
       ELSE /\ summary' = CopyBaselineToTesting(summary, featureSetIdx, IF UseCommonBaseline THEN 0 ELSE featureSetIdx)
            /\ NextFeatureSet
            /\ UNCHANGED <<isTest, foldIdx>>
    /\ UNCHANGED <<inVars, snapshotFile, error, callbacks, disjointFoldCount, foldRangePart, foldRangeIdx, processedFoldCount, randCalls, foldContext, histVars, pfVars, uiVars, smVars, cfVars>>

\* the comparison of lines 939-943 for the tuple trainFullModels is at
HaveSummary == HaveEvalFeatureSummary(callbacks, FoldRangeBegin, featureSetIdx, isTest, OffsetInRange + foldIdx)

\* lines 945-947: the fold is in the snapshot, nothing is trained for it
SkipFold ==
    /\ pc = "fold"
    /\ HaveSummary.error = ""
    /\ HaveSummary.haveSummary
    /\ skippedLog' = Append(skippedLog, CurrentTuple)
    /\ NextFold
    /\ UNCHANGED <<inVars, snapshotFile, error, summary, callbacks, disjointFoldCount, foldRangePart, foldRangeIdx, processedFoldCount, isTest, randCalls, foldContext, restarts, trainedLog, pfVars, uiVars, smVars, cfVars>>

\* Train, on entry: with snapshots enabled and a snapshot file on disk the
\* trainer offers it to OnLoadSnapshot; when that accepts it the trainer
\* continues from the learn progress stored in the file
TrainerTryLoadProgress(cb, s, seed) ==
    IF saveSnapshot /\ Defined(snapshotFile)
    THEN LET r == OnLoadSnapshot(cb, s, GetRef(snapshotFile).callbacksPart)
         IN  [error |-> r.error, callbacks |-> r.callbacks, summary |-> r.summary, seed |-> IF r.loaded THEN GetRef(snapshotFile).learnProgress.seed ELSE seed]
    ELSE [error |-> "", callbacks |-> cb, summary |-> s, seed |-> seed]

\* lines 949-976: a fold context with a seed drawn from the range's
\* generator, the progress marker, and the entry into Train
TrainFoldBegin ==
    /\ pc = "fold"
    /\ ~HaveSummary.haveSummary
    /\ IF HaveSummary.error # ""
       THEN Fail(HaveSummary.error) /\ UNCHANGED <<summary, callbacks, randCalls, foldContext, trainedLog>>
       ELSE LET marked == [callbacks EXCEPT !.FoldRangeBegin = Just(FoldRangeBegin), !.FeatureSetIndex = Just(featureSetIdx), !.IsTest = Just(isTest), !.FoldIndex = Just(OffsetInRange + foldIdx)]
                entered == TrainerTryLoadProgress(marked, summary, randCalls)
            IN  /\ randCalls' = randCalls + 1
                /\ trainedLog' = Append(trainedLog, CurrentTuple)
                /\ callbacks' = entered.callbacks
                /\ summary' = entered.summary
                /\ \E treeCount \in {IterationCount - 1, IterationCount} :
                       foldContext' = Just([FoldIdx |-> FoldRangeBegin + OffsetInRange + foldIdx, seed |-> entered.seed, treeCount |-> treeCount])
                /\ IF entered.error # "" THEN Fail(entered.error) ELSE pc' = "train" /\ error' = ""
    /\ UNCHANGED <<inVars, snapshotFile, disjointFoldCount, foldRangePart, foldRangeIdx, processedFoldCount, featureSetIdx, isTest, foldIdx, restarts, skippedLog, pfVars, uiVars, smVars, cfVars>>

\* Train, at a snapshot boundary: OnSaveSnapshot writes the summary, the
\* marker and the options; the trainer adds its learn progress
TrainerSaveSnapshot ==
    /\ pc = "train"
    /\ saveSnapshot
    /\ snapshotFile' = Just([callbacksPart |-> OnSaveSnapshot(callbacks, summary), learnProgress |-> [seed |-> GetRef(foldContext).seed]])
    /\ snapshotFile' # snapshotFile
    /\ UNCHANGED <<inVars, procVars, histVars, pfVars, uiVars, smVars, cfVars>>

\* testFoldsData of lines 887-906: isFixedMlTools3185 is false, PrepareFolds
\* and PrepareTimeSplitFolds get nullptr for it and it stays empty
TestFoldsData == <<>>

\* lines 978-1009: Train has returned; CalcMetricsForTest (with its check
\* of the model's tree count against the iteration count, lines 654-661)
\* is called when testFoldsData is not empty; the fold's results are stored
TrainFoldEnd ==
    /\ pc = "train"
    /\ IF TestFoldsData # <<>> /\ GetRef(foldContext).treeCount # IterationCount
       THEN Fail("model size differs from iteration count") /\ UNCHANGED <<summary, featureSetIdx, foldIdx, foldContext>>
       ELSE /\ summary' = StoreFoldResult(summary, isTest, featureSetIdx, TrainResult(FoldRangeBegin, featureSetIdx, isTest, OffsetInRange + foldIdx, GetRef(foldContext).seed))
            /\ foldContext' = Nothing
            /\ NextFold
            /\ error' = error
    /\ UNCHANGED <<inVars, snapshotFile, callbacks, disjointFoldCount, foldRangePart, foldRangeIdx, processedFoldCount, isTest, randCalls, histVars, pfVars, uiVars, smVars, cfVars>>

\* the end of EvaluateFeaturesImpl (CreateLogs) and lines 1201-1204
EvaluateFeaturesImplEnd ==
    /\ pc = "logs"
    /\ foldRangeIdx' = foldRangeIdx + 1
    /\ processedFoldCount' = processedFoldCount + foldRangePart.FoldCount
    /\ foldRangePart' = [foldRangePart EXCEPT !.Offset = 0, !.FoldCount = MinWithUi32Difference(disjointFoldCount, EffectiveFoldCount(cvParams, featureEvalOptions), processedFoldCount')]
    /\ pc' = "loop"
    /\ UNCHANGED <<inVars, snapshotFile, error, summary, callbacks, disjointFoldCount, featureSetIdx, isTest, foldIdx, randCalls, foldContext, histVars, pfVars, uiVars, smVars, cfVars>>

\* options and metrics of a restarted run: the same, or another evaluation
\* mode, or other metrics
RestartOptions == {<<[featureEvalOptions EXCEPT !.FeatureEvalMode = m], metrics>> : m \in FeatureEvalModes} \cup {<<featureEvalOptions, ms>> : ms \in MetricChoices}

\* the process is killed and EvaluateFeatures is started again; only the
\* snapshot file survives
KillAndRestart ==
    /\ pc # "start"
    /\ restarts < MaxRestarts
    /\ restarts' = restarts + 1
    /\ \E r \in RestartOptions : featureEvalOptions' = r[1] /\ metrics' = r[2]
    /\ pc' = "start" /\ error' = "" /\ summary' = EmptySummary /\ callbacks' = NewCallbacks(featureEvalOptions')
    /\ disjointFoldCount' = 0 /\ foldRangePart' = [FoldSize |-> 0, Offset |-> 0, FoldCount |-> 0]
    /\ foldRangeIdx' = 0 /\ processedFoldCount' = 0 /\ featureSetIdx' = 0 /\ isTest' = FALSE /\ foldIdx' = 0 /\ randCalls' = 0
    /\ foldContext' = Nothing /\ trainedLog' = <<>> /\ skippedLog' = <<>>
    /\ UNCHANGED <<cvParams, saveSnapshot, constantSets, snapshotFile, pfVars, uiVars, smVars, cfVars>>

Next ==
    \/ EvaluateFeaturesBegin
    \/ EvaluateFeaturesImplBegin
    \/ EvaluateFeaturesEnd
    \/ FeatureSetBaseline
    \/ FeatureSetTesting
    \/ SkipFold
    \/ TrainFoldBegin
    \/ TrainerSaveSnapshot
    \/ TrainFoldEnd
    \/ EvaluateFeaturesImplEnd
    \/ KillAndRestart

Spec == Init /\ [][Next]_vars

\* ---- the uninterrupted run of the current configuration

\* the fold ranges of EvaluateFeatures' loop, each <<foldRangeIdx, Offset, FoldCount>>
RECURSIVE FoldRangesFrom(_, _, _, _, _, _)
FoldRangesFrom(idx, o, c, processed, d, foldCount) ==
    IF ~(processed < foldCount) THEN <<>>
    ELSE <<(<<idx, o, c>>)>> \o FoldRangesFrom(idx + 1, 0, MinWithUi32Difference(d, foldCount, processed + c), processed + c, d, foldCount)

RunDisjointFoldCount == CountDisjointFolds(PoolUnits, featureEvalOptions).disjointFoldCount

RunFoldCount == EffectiveFoldCount(cvParams, featureEvalOptions)

RunFoldRanges == FoldRangesFrom(featureEvalOptions.Offset \div RunDisjointFoldCount, featureEvalOptions.Offset % RunDisjointFoldCount, MinOf(RunDisjointFoldCount - (featureEvalOptions.Offset % RunDisjointFoldCount), RunFoldCount), 0, RunDisjointFoldCount, RunFoldCount)

\* the folds trainFullModels goes through in a range <<idx, o, c>>
RangeFoldIndices(range) == IF cvParams.Initialized THEN [i \in 1 .. cvParams.FoldCount |-> i - 1] ELSE [i \in 1 .. range[3] |-> range[2] + i - 1]

\* the steps of EvaluateFeaturesImpl on a range, in program order: "train"
\* of a (feature set, kind, fold), "clone" of the shared Baseline, "copy"
\* of Baseline to Testing
FeatureSetSteps(range, j) ==
    LET folds == RangeFoldIndices(range)
        baseline == IF j > 0 /\ UseCommonBaseline THEN <<(<<"clone", j, FALSE, 0>>)>> ELSE [i \in 1 .. Len(folds) |-> <<"train", j, FALSE, folds[i]>>]
        testing == IF HaveFeaturesToEvaluate(j) THEN [i \in 1 .. Len(folds) |-> <<"train", j, TRUE, folds[i]>>] ELSE <<(<<"copy", j, TRUE, 0>>)>>
    IN  baseline \o testing

RangeSteps(range) ==
    IF FeatureSetsSize = 0 THEN LET folds == RangeFoldIndices(range) IN [i \in 1 .. Len(folds) |-> <<"train", 0, FALSE, folds[i]>>]
    ELSE Concat([j \in 1 .. FeatureSetsSize |-> FeatureSetSteps(range, j - 1)])

\* the summary after the given steps of a range, no fold being skipped:
\* the k-th training of the range gets the k-th number of its generator
RECURSIVE SummaryAfterSteps(_, _, _, _)
SummaryAfterSteps(s, steps, foldRangeBegin, drawn) ==
    IF steps = <<>> THEN s
    ELSE LET step == Head(steps)
         IN  IF step[1] = "train" THEN SummaryAfterSteps(StoreFoldResult(s, step[3], step[2], TrainResult(foldRangeBegin, step[2], step[3], step[4], drawn)), Tail(steps), foldRangeBegin, drawn + 1)
             ELSE IF step[1] = "clone" THEN SummaryAfterSteps(CloneBaseline(s, step[2]), Tail(steps), foldRangeBegin, drawn)
             ELSE SummaryAfterSteps(CopyBaselineToTesting(s, step[2], IF UseCommonBaseline THEN 0 ELSE step[2]), Tail(steps), foldRangeBegin, drawn)

RECURSIVE SummaryAfterRanges(_, _)
SummaryAfterRanges(s, ranges) ==
    IF ranges = <<>> THEN s
    ELSE SummaryAfterRanges(SummaryAfterSteps(s, RangeSteps(Head(ranges)), Head(ranges)[1] * RunDisjointFoldCount, 0), Tail(ranges))

\* the Summary an uninterrupted run of the configuration returns
UninterruptedSummary == CalcWxTestAndAverageDelta(SummaryAfterRanges(SetHeaderInfo(EmptySummary, metrics, featureEvalOptions.FeaturesToEvaluate), RunFoldRanges))

\* a run that was never killed returns the uninterrupted summary
UninterruptedRunReturnsIt == (pc = "done" /\ restarts = 0) => summary = UninterruptedSummary

\* ============================================================ resume

\* C1 as stated: a run that was killed after a snapshot was saved and then
\* restarted returns a Summary identical to the Summary of an uninterrupted
\* run of the same configuration.
C1_ResumedSummaryIdentical == (pc = "done" /\ restarts > 0) => summary = UninterruptedSummary

\* the progress marker held by the callbacks
Marker == <<GetRef(callbacks.FoldRangeBegin), GetRef(callbacks.FeatureSetIndex), BoolToUi32(GetRef(callbacks.IsTest)), GetRef(callbacks.FoldIndex)>>

\* the progress marker in the snapshot file
SnapshotMarker == LET part == GetRef(snapshotFile).callbacksPart IN <<GetRef(part[2]), GetRef(part[3]), BoolToUi32(GetRef(part[4])), GetRef(part[5])>>

\* a step of trainFullModels that decides on the tuple it is at, while the
\* marker M loaded from the snapshot is pending
DecidesWithMarker == pc = "fold" /\ callbacks.IsNextLoadValid /\ pc' \notin {"start", "failed"}

SkipsTuple == skippedLog' = Append(skippedLog, CurrentTuple) /\ trainedLog' = trainedLog

TrainsTuple == trainedLog' = Append(trainedLog, CurrentTuple) /\ skippedLog' = skippedLog /\ pc' = "train"

\* C2 as stated: with the marker M of a loaded snapshot pending, a tuple is
\* skipped exactly when it is lexicographically at or before M, so M itself
\* is skipped.
C2_SkippedIffAtOrBefore == [][DecidesWithMarker => (SkipsTuple <=> (ArrayLess(CurrentTuple, Marker) \/ CurrentTuple = Marker)) /\ (SkipsTuple \/ TrainsTuple)]_vars

\* C2, amended: with the marker M of a loaded snapshot pending, a tuple is
\* skipped exactly when it is lexicographically strictly before M; every
\* other tuple, M itself included, is trained.
C2_SkippedIffBefore == [][DecidesWithMarker => (SkipsTuple <=> ArrayLess(CurrentTuple, Marker)) /\ (TrainsTuple <=> ~ArrayLess(CurrentTuple, Marker))]_vars

\* a resumed run has skipped the tuples before M and is training M again
C2_Witness == pc = "train" /\ restarts > 0 /\ skippedLog # <<>> /\ trainedLog = <<SnapshotMarker>> /\ \A i \in 1 .. Len(skippedLog) : ArrayLess(skippedLog[i], SnapshotMarker)

\* C3 as stated: the first comparison of a tuple against the marker clears
\* IsNextLoadValid, and once a tuple has been compared no tuple of the run
\* is skipped.
C3_ClearedByFirstComparison == [][pc = "fold" /\ pc' \notin {"start", "failed"} => ~callbacks'.IsNextLoadValid /\ (skippedLog \o trainedLog # <<>> => skippedLog' = skippedLog)]_vars

\* C3, amended: a comparison leaves IsNextLoadValid as it is, so each tuple
\* before the marker is compared and skipped in turn; the flag is cleared
\* by OnLoadSnapshot when the first tuple that is not skipped enters
\* training, and once a tuple has been trained no tuple of the run is
\* skipped.
C3_ClearedByFirstTraining == [][pc = "fold" /\ pc' \notin {"start", "failed"} => (SkipsTuple => callbacks'.IsNextLoadValid = callbacks.IsNextLoadValid) /\ (TrainsTuple => ~callbacks'.IsNextLoadValid) /\ (trainedLog # <<>> => skippedLog' = skippedLog)]_vars

\* a resumed run has skipped two tuples, then entered training, and the
\* flag is cleared
C3_Witness == pc = "train" /\ restarts > 0 /\ Len(skippedLog) >= 2 /\ Len(trainedLog) >= 2 /\ ~callbacks.IsNextLoadValid

\* the snapshot file was written for other options than the run's
OptionsDiffer == saveSnapshot /\ Defined(snapshotFile) /\ GetRef(snapshotFile).callbacksPart[6] # featureEvalOptions

\* C4: when the options stored in the snapshot differ from the options of
\* the run, the run fails in OnLoadSnapshot: it never gets past the load,
\* no tuple is skipped and no fold is trained.
C4_OptionsMismatchFatal == OptionsDiffer => pc \in {"start", "failed"} /\ (pc = "failed" => error = "Current feaure evaluation options differ from options in snapshot") /\ skippedLog = <<>> /\ trainedLog = <<>> /\ randCalls = 0

C4_Witness == OptionsDiffer /\ pc = "failed" /\ error = "Current feaure evaluation options differ from options in snapshot" /\ restarts > 0

\* ============================================================ windowing

\* the absolute fold indices trained for a feature set and a training kind
TrainedFolds(j, t) == LET Match(e) == e[2] = j /\ e[3] = t  sel == SelectSeq(trainedLog, Match) IN [i \in 1 .. Len(sel) |-> sel[i][1] + sel[i][4]]

\* C9: in fixed-size mode a fold in training has an absolute index a within
\* offset .. offset+foldCount-1, it is block a mod d of the range that
\* begins at (a div d)*d, and its data is block a mod d of the pool; a run
\* that was not interrupted has trained, for every feature set and kind it
\* trains, the folds offset, ..., offset+foldCount-1 each once, in
\* increasing order.
C9_Windowing ==
    ~cvParams.Initialized =>
        /\ pc = "train" =>
            LET a == GetRef(foldContext).FoldIdx
                d == RunDisjointFoldCount
            IN  /\ featureEvalOptions.Offset <= a /\ a < featureEvalOptions.Offset + featureEvalOptions.FoldCount
                /\ FoldRangeBegin = (a \div d) * d
                /\ OffsetInRange + foldIdx = a % d
                /\ RangeFolds.foldsData[foldIdx + 1].Learn = SplitByUnits(PoolUnits, CountDisjointFolds(PoolUnits, featureEvalOptions).absoluteFoldSize)[(a % d) + 1]
        /\ pc = "done" /\ restarts = 0 =>
            /\ TrainedFolds(0, 0) # <<>>
            /\ \A j \in 0 .. MaxFeatureSets, t \in {0, 1} : TrainedFolds(j, t) \in {<<>>, [i \in 1 .. featureEvalOptions.FoldCount |-> featureEvalOptions.Offset + i - 1]}

\* a finished run whose window starts inside one fold range and ends in
\* the next
C9_Witness == pc = "done" /\ restarts = 0 /\ ~cvParams.Initialized /\ featureEvalOptions.Offset % RunDisjointFoldCount # 0 /\ trainedLog[1][1] # trainedLog[Len(trainedLog)][1]

\* ============================================================ feature sets

\* the tuples trainFullModels has decided on in this process, in order
\* (the skipped ones come first)
VisitedLog == skippedLog \o trainedLog

Count(log, e) == Cardinality({i \in 1 .. Len(log) : log[i] = e})

\* the fold range EvaluateFeatures is at, as <<foldRangeIdx, Offset, FoldCount>>
CurrentRange == <<foldRangeIdx, foldRangePart.Offset, foldRangePart.FoldCount>>

\* the feature set indices whose Baseline is trained
BaselineSets == IF FeatureSetsSize = 0 \/ UseCommonBaseline THEN {0} ELSE 0 .. (FeatureSetsSize - 1)

\* C12: with a shared baseline (every mode except OneVsOthers) Baseline is
\* trained for feature set 0 only, and at the end of a fold range every
\* fold of the range has been decided once as Baseline of set 0 (trained
\* once when the run was not interrupted) and the Baseline best metrics and
\* best iterations of every set j > 0 equal those of set 0; in OneVsOthers
\* the same holds for the Baseline of every feature set on its own.
C12_SharedBaseline ==
    /\ UseCommonBaseline => \A i \in 1 .. Len(trainedLog) : trainedLog[i][3] = 0 => trainedLog[i][2] = 0
    /\ pc = "logs" =>
        /\ \A j \in BaselineSets : \A f \in SeqRange(RangeFoldIndices(CurrentRange)) :
               /\ Count(VisitedLog, <<FoldRangeBegin, j, 0, f>>) = 1
               /\ restarts = 0 => Count(trainedLog, <<FoldRangeBegin, j, 0, f>>) = 1
        /\ UseCommonBaseline => \A j \in 1 .. (FeatureSetsSize - 1) :
               /\ summary.BestMetrics[1][j + 1] = summary.BestMetrics[1][1]
               /\ summary.BestBaselineIterations[j + 1] = summary.BestBaselineIterations[1]

C12_Witness == pc = "logs" /\ UseCommonBaseline /\ FeatureSetsSize >= 2 /\ Len(summary.BestBaselineIterations[2]) >= 2 /\ summary.BestBaselineIterations[2] = summary.BestBaselineIterations[1] /\ \A i \in 1 .. Len(trainedLog) : trainedLog[i][3] = 0 => trainedLog[i][2] = 0

\* ========================================================= summary engine

\* metrics with the given best value types, described by their index
MetricsOfTypes(types) == [m \in 1 .. Len(types) |-> [Description |-> m - 1, BestValue |-> types[m]]]

\* a call of AppendFeatureSetMetrics for a fold with two metrics: the
\* trajectory [iteration][metric], and another column for metric 1
AppendInputs == UNION {[op : {"Append"}, MetricTypes : [1 .. 2 -> {"Min", "Max"}], isTest : BOOLEAN, metricValuesOnFold : [1 .. ni -> [1 .. 2 -> (0 .. MaxMetricValue)]], otherColumn : [1 .. ni -> (0 .. MaxMetricValue)]] : ni \in 1 .. IterationCount}

\* a call of CalcWxTestAndAverageDelta on a summary with one feature set
\* row: the per-fold best values of metric 0 for Baseline and Testing
CalcInputs == UNION {{in \in [op : {"Calc"}, MetricTypes : [1 .. nm -> {"Min", "Max"}], noFeatureSets : BOOLEAN, baseline : [1 .. n -> (0 .. MaxMetricValue)], tested : [1 .. n -> (0 .. MaxMetricValue)]] : in.noFeatureSets => in.tested = in.baseline} : nm \in 1 .. MaxMetrics, n \in 1 .. MaxFolds}

\* the summary after SetHeaderInfo for the call's metrics
SmHeader(types, featureSets) == SetHeaderInfo(EmptySummary, MetricsOfTypes(types), featureSets)

\* the trajectory with metric 1's column replaced
SmAlteredValues == [it \in 1 .. Len(smInput.metricValuesOnFold) |-> <<smInput.metricValuesOnFold[it][1], smInput.otherColumn[it]>>]

\* the summary at the end of a run: metric m's per-fold best values are
\* those of metric 0 plus m (Baseline) and plus 2m (Testing); without
\* feature sets nothing was appended for Testing
SmCalcSummary ==
    LET nm == Len(smInput.MetricTypes)
        header == SmHeader(smInput.MetricTypes, IF smInput.noFeatureSets THEN <<>> ELSE <<(<<0>>)>>)
        baselineTable == [m \in 1 .. nm |-> [f \in 1 .. Len(smInput.baseline) |-> smInput.baseline[f] + (m - 1)]]
        testedTable == IF smInput.noFeatureSets THEN <<>> ELSE [m \in 1 .. nm |-> [f \in 1 .. Len(smInput.tested) |-> smInput.tested[f] + 2 * (m - 1)]]
    IN  [header EXCEPT !.BestMetrics = <<(<<baselineTable>>), (<<testedTable>>)>>]

InitSummary ==
    /\ smPc = "call"
    /\ smInput \in AppendInputs \cup CalcInputs
    /\ smSummary = <<>>
    /\ smAltered = <<>>
    /\ PfIdle
    /\ UiIdle
    /\ EfIdle
    /\ CfIdle

CallAppendFeatureSetMetrics ==
    /\ smPc = "call"
    /\ smInput.op = "Append"
    /\ smSummary' = AppendFeatureSetMetrics(SmHeader(smInput.MetricTypes, <<>>), smInput.isTest, 0, smInput.metricValuesOnFold)
    /\ smAltered' = AppendFeatureSetMetrics(SmHeader(smInput.MetricTypes, <<>>), smInput.isTest, 0, SmAlteredValues)
    /\ smPc' = "done"
    /\ UNCHANGED <<smInput, pfVars, uiVars, efVars, cfVars>>

CallCalcWxTestAndAverageDelta ==
    /\ smPc = "call"
    /\ smInput.op = "Calc"
    /\ smSummary' = CalcWxTestAndAverageDelta(SmCalcSummary)
    /\ smAltered' = <<>>
    /\ smPc' = "done"
    /\ UNCHANGED <<smInput, pfVars, uiVars, efVars, cfVars>>

NextSummary == CallAppendFeatureSetMetrics \/ CallCalcWxTestAndAverageDelta

SpecSummary == InitSummary /\ [][NextSummary]_vars

\* ---- degenerate feature sets

\* the Baseline results used for feature set j, line 1052
BaselineIdxOf(j) == IF UseCommonBaseline THEN 0 ELSE j

\* C13: when the Testing projection of feature set j leaves some fold
\* without a usable feature, then at the end of every fold range no Testing
\* fold of j has been visited by trainFullModels, and the Testing metric
\* history, feature strengths and best metrics of j equal the Baseline
\* ones of feature set 0 when the baseline is shared, of j otherwise
C13_DegenerateFeatureSet ==
    (pc = "logs" /\ error = "") =>
        \A j \in 0 .. (FeatureSetsSize - 1) :
            ~HaveFeaturesToEvaluate(j) =>
                /\ \A k \in 1 .. Len(VisitedLog) : ~(VisitedLog[k][2] = j /\ VisitedLog[k][3] = 1)
                /\ summary.MetricsHistory[2][j + 1] = summary.MetricsHistory[1][BaselineIdxOf(j) + 1]
                /\ summary.FeatureStrengths[2][j + 1] = summary.FeatureStrengths[1][BaselineIdxOf(j) + 1]
                /\ summary.RegularFeatureStrengths[2][j + 1] = summary.RegularFeatureStrengths[1][BaselineIdxOf(j) + 1]
                /\ summary.BestMetrics[2][j + 1] = summary.BestMetrics[1][BaselineIdxOf(j) + 1]

\* a range has ended in OneVsOthers mode with a constant second feature
\* set whose Baseline folds were trained
C13_Witness ==
    /\ pc = "logs" /\ error = ""
    /\ FeatureSetsSize = 2 /\ ~HaveFeaturesToEvaluate(1) /\ ~UseCommonBaseline
    /\ summary.BestMetrics[1][2] # <<>>
    /\ summary.BestMetrics[1][2] # summary.BestMetrics[1][1]
    /\ summary.FeatureStrengths[2][2] # <<>>

\* ---- no feature sets

\* C14: when FeaturesToEvaluate is empty, only Baseline folds of feature
\* set 0 are ever decided on; at the end of a fold range every fold of the
\* range has been decided once as Baseline of set 0 (trained once when the
\* run was not interrupted) and nothing else; and the summary has exactly
\* one feature set row, in each of its tables
C14_NoFeatureSets ==
    FeatureSetsSize = 0 =>
        /\ \A k \in 1 .. Len(VisitedLog) : VisitedLog[k][2] = 0 /\ VisitedLog[k][3] = 0
        /\ (pc = "logs" /\ error = "") =>
               LET folds == RangeFoldIndices(CurrentRange)
                   InRange(e) == e[1] = FoldRangeBegin
               IN  /\ \A f \in SeqRange(folds) : Count(VisitedLog, <<FoldRangeBegin, 0, 0, f>>) = 1
                   /\ Len(SelectSeq(VisitedLog, InRange)) = Len(folds)
                   /\ restarts = 0 => SelectSeq(trainedLog, InRange) = [i \in 1 .. Len(folds) |-> <<FoldRangeBegin, 0, 0, folds[i]>>]
        /\ HasHeaderInfo(summary) =>
               /\ GetFeatureSetCount(summary) = 1
               /\ Len(summary.BestBaselineIterations) = 1
               /\ \A t \in 1 .. 2 : Len(summary.MetricsHistory[t]) = 1 /\ Len(summary.BestMetrics[t]) = 1
               /\ summary.BestMetrics[2][1] = <<>>

\* a run without feature sets has finished its second fold range
C14_Witness == FeatureSetsSize = 0 /\ pc = "logs" /\ error = "" /\ foldRangeIdx * disjointFoldCount > featureEvalOptions.Offset /\ Len(trainedLog) >= 2 /\ trainedLog[1][1] # FoldRangeBegin /\ Len(summary.BestMetrics[1][1][1]) = Len(trainedLog)

\* ---- best iteration

\* C15: AppendFeatureSetMetrics on a non-empty trajectory picks an
\* iteration whose metric 0 value is the minimum (metric 0 is Min) or the
\* maximum (metric 0 is Max) of column 0; the same iteration is picked when
\* the column of the other metric is replaced; Baseline records the
\* iteration; and the best value recorded for every metric is the metric's
\* value at that iteration
C15_BestIteration ==
    (smPc = "done" /\ smInput.op = "Append") =>
        LET metricValues == smInput.metricValuesOnFold
            bestIteration == GetBestIterationInFold(smInput.MetricTypes, metricValues)
            kind == KindIdx(smInput.isTest)
        IN  /\ bestIteration \in 0 .. (Len(metricValues) - 1)
            /\ \A it \in 1 .. Len(metricValues) :
                   IF smInput.MetricTypes[1] = "Min"
                   THEN metricValues[bestIteration + 1][1] <= metricValues[it][1]
                   ELSE metricValues[bestIteration + 1][1] >= metricValues[it][1]
            /\ GetBestIterationInFold(smInput.MetricTypes, SmAlteredValues) = bestIteration
            /\ smSummary.BestBaselineIterations[1] = IF smInput.isTest THEN <<>> ELSE <<bestIteration>>
            /\ smAltered.BestBaselineIterations = smSummary.BestBaselineIterations
            /\ \A m \in 1 .. Len(smInput.MetricTypes) : smSummary.BestMetrics[kind][1][m] = <<metricValues[bestIteration + 1][m]>>
            /\ smAltered.BestMetrics[kind][1] = <<(<<metricValues[bestIteration + 1][1]>>), (<<smInput.otherColumn[bestIteration + 1]>>)>>

\* a Baseline trajectory of two iterations whose best iteration is the
\* second one, called with another column for the other metric
C15_Witness ==
    /\ smPc = "done" /\ smInput.op = "Append" /\ ~smInput.isTest
    /\ smInput.MetricTypes = <<"Min", "Max">>
    /\ Len(smInput.metricValuesOnFold) = 2
    /\ smSummary.BestBaselineIterations[1] = <<1>>
    /\ smSummary.BestMetrics[1][1] = <<(<<0>>), (<<0>>)>>
    /\ smInput.metricValuesOnFold[1][2] = 1
    /\ smAltered.BestMetrics[1][1] = <<(<<0>>), (<<1>>)>>

\* ---- average deltas

\* C16: the delta CalcWxTestAndAverageDelta stores for a metric is
\* testedAverage - baselineAverage when the metric is Max and
\* baselineAverage - testedAverage when it is Min; so with testedAverage >
\* baselineAverage (equally: the per-fold tested values sum up to more than
\* the baseline ones) the delta is positive for Max and negative for Min
C16_DeltaSign ==
    (smPc = "done" /\ smInput.op = "Calc") =>
        \A m \in 1 .. Len(smInput.MetricTypes) :
            LET delta == smSummary.AverageMetricDelta[1][m]
                testedGreater == Accumulate(TestedMetricsOf(SmCalcSummary, 0)[m]) > Accumulate(BaselineMetricsOf(SmCalcSummary, 0)[m])
            IN  /\ delta.den > 0
                /\ testedGreater <=> QuotientLess(BaselineAverage(SmCalcSummary, 0, m), TestedAverage(SmCalcSummary, 0, m))
                /\ IF smInput.MetricTypes[m] = "Max"
                   THEN /\ QuotientEqual(delta, Difference(TestedAverage(SmCalcSummary, 0, m), BaselineAverage(SmCalcSummary, 0, m)))
                        /\ testedGreater => delta.num > 0
                   ELSE /\ QuotientEqual(delta, Difference(BaselineAverage(SmCalcSummary, 0, m), TestedAverage(SmCalcSummary, 0, m)))
                        /\ testedGreater => delta.num < 0

\* a Min metric and a Max metric, both with a greater tested average
C16_Witness ==
    /\ smPc = "done" /\ smInput.op = "Calc" /\ ~smInput.noFeatureSets
    /\ smInput.MetricTypes = <<"Min", "Max">>
    /\ smSummary.AverageMetricDelta[1][1].num < 0
    /\ smSummary.AverageMetricDelta[1][2].num > 0

\* C17: baselineAverage and testedAverage are the sums of the per-fold best
\* values divided by the number of folds
C17_AveragesAreMeans ==
    (smPc = "done" /\ smInput.op = "Calc") =>
        \A m \in 1 .. Len(smInput.MetricTypes) :
            /\ QuotientEqual(BaselineAverage(SmCalcSummary, 0, m), Quotient(Accumulate(BaselineMetricsOf(SmCalcSummary, 0)[m]), Len(smInput.baseline)))
            /\ QuotientEqual(TestedAverage(SmCalcSummary, 0, m), Quotient(Accumulate(TestedMetricsOf(SmCalcSummary, 0)[m]), Len(smInput.tested)))

\* C19: a finished run without feature sets has compared the Baseline
\* losses of its single row with themselves, and every average metric
\* delta of the row is 0
C19_NoFeatureSetsDeltaZero ==
    (pc = "done" /\ error = "" /\ FeatureSetsSize = 0) =>
        /\ Len(summary.WxTest) = 1 /\ Len(summary.AverageMetricDelta) = 1
        /\ summary.WxTest[1] = WxTest(summary.BestMetrics[1][1][1], summary.BestMetrics[1][1][1])
        /\ \A m \in 1 .. Len(summary.MetricTypes) : summary.AverageMetricDelta[1][m].num = 0 /\ summary.AverageMetricDelta[1][m].den > 0

\* a finished run without feature sets whose Baseline losses are not all 0
C19_Witness == pc = "done" /\ error = "" /\ FeatureSetsSize = 0 /\ Len(summary.AverageMetricDelta) = 1 /\ Accumulate(summary.BestMetrics[1][1][1]) > 0 /\ Len(summary.BestMetrics[1][1][1]) >= 2

\* ---- paired vectors

\* C18: a finished run with at least one feature set has, for every
\* feature set and every metric, a Baseline list and a Testing list of
\* per-fold best values of the same length, the requested fold count
C18_PairedVectors ==
    (pc = "done" /\ error = "" /\ FeatureSetsSize >= 1) =>
        \A j \in 0 .. (FeatureSetsSize - 1) : \A m \in 1 .. Len(summary.MetricTypes) :
            /\ Len(summary.BestMetrics[1][j + 1][m]) = Len(summary.BestMetrics[2][j + 1][m])
            /\ Len(summary.BestMetrics[1][j + 1][m]) = EffectiveFoldCount(cvParams, featureEvalOptions)

\* ---- fold count and fold size of 0

\* EvaluateFeatures has failed before the first fold range began
FailedBeforeFolds == pc = "failed" /\ summary = EmptySummary /\ trainedLog = <<>> /\ skippedLog = <<>>

\* C20 as stated: once EvaluateFeatures has gone through its checks, a
\* fold count of 0 or a FoldSize option of 0 has made it fail before any
\* fold was prepared or trained
C20_ZeroIsFatal ==
    (pc # "start" /\ (EffectiveFoldCount(cvParams, featureEvalOptions) = 0 \/ featureEvalOptions.FoldSize = 0)) => FailedBeforeFolds

\* C20, corrected: a fold count of 0 makes EvaluateFeatures fail before
\* any fold is prepared or trained, whatever the other options are; with
\* a positive fold count and a FoldSize option of 0 it fails that way when
\* RelativeFoldSize times the number of sampling units, truncated, is 0,
\* and otherwise goes on with this product as the fold size
C20_ZeroFoldCountOrFoldSize ==
    pc # "start" =>
        LET relative == (featureEvalOptions.RelativeFoldSize.num * PoolUnits) \div featureEvalOptions.RelativeFoldSize.den
        IN  /\ EffectiveFoldCount(cvParams, featureEvalOptions) = 0 => FailedBeforeFolds /\ error = "Fold count must be positive integer"
            /\ (EffectiveFoldCount(cvParams, featureEvalOptions) > 0 /\ featureEvalOptions.FoldSize = 0) =>
                   IF relative = 0 THEN FailedBeforeFolds /\ error # "Fold count must be positive integer"
                   ELSE disjointFoldCount = MaxOf(1, PoolUnits \div relative) /\ (pc # "failed" => foldRangePart.FoldSize = relative)

\* a run with a FoldSize option of 0 that has trained folds and finished
C20_Witness == pc = "done" /\ error = "" /\ featureEvalOptions.FoldSize = 0 /\ Len(trainedLog) >= 2 /\ foldRangePart.FoldSize = 1

\* ---- window and disjoint fold count

\* the fold ranges this process has gone through
ProcessedRanges == foldRangeIdx - (featureEvalOptions.Offset \div disjointFoldCount)

\* C21 as stated, second part: a finished run with shuffling whose window
\* offset + foldCount exceeds the disjoint fold count has processed
\* several fold ranges
C21_ShuffledIsSeveralRanges ==
    (pc = "done" /\ cvParams.Shuffle /\ disjointFoldCount < featureEvalOptions.Offset + RunFoldCount) => ProcessedRanges >= 2

\* C21, corrected: with valid fold count and fold size, when offset +
\* foldCount exceeds the disjoint fold count d and shuffling is disabled
\* EvaluateFeatures fails before any fold range is processed; with
\* shuffling it does not fail that way, and a finished run has processed
\* CeilDiv(offset mod d + foldCount, d) fold ranges, which is one range
\* when the window, moved by whole ranges, fits into d; when offset +
\* foldCount does not exceed d a finished run has processed exactly one
C21_TooFewDisjointFolds ==
    (pc # "start" /\ RunFoldCount > 0 /\ CountDisjointFolds(PoolUnits, featureEvalOptions).error = "") =>
        LET d == RunDisjointFoldCount
            offset == featureEvalOptions.Offset
            tooFew == "Dataset contains too few objects or groups to evaluate features without shuffling"
        IN  IF d < offset + RunFoldCount
            THEN IF ~cvParams.Shuffle THEN FailedBeforeFolds /\ error = tooFew
                 ELSE /\ error # tooFew
                      /\ pc = "done" => ProcessedRanges = CeilDiv((offset % d) + RunFoldCount, d)
            ELSE /\ error # tooFew
                 /\ pc = "done" => ProcessedRanges = 1

\* a finished shuffled run whose window exceeds the disjoint fold count
\* and lies in one fold range
C21_Witness == pc = "done" /\ error = "" /\ cvParams.Shuffle /\ disjointFoldCount < featureEvalOptions.Offset + RunFoldCount /\ ProcessedRanges = 1 /\ Len(trainedLog) >= 1

\* ---- metrics without a bound

\* C22: in a process whose metrics include one that has neither a lower
\* nor an upper bound as best value, fresh or resumed, no fold range gets
\* as far as training a fold
C22_UndirectedMetricFatal ==
    GetBestValueTypeError(metrics) # "" => (trainedLog = <<>> /\ pc \in {"start", "loop", "failed"})

\* ---- the summary header

\* C23: a summary with a header has tables of two training kinds times
\* GetFeatureSetCount feature sets, as many metric names as metric types,
\* and best metrics of no metric or of every metric per feature set; within
\* a process a header appears from the snapshot at the start or from the
\* first fold range the process goes through, and once there the header
\* and these counts stay as they are in every step
C23_HeaderOnce ==
    [][LET Shape(s) == <<Len(s.MetricTypes), Len(s.MetricNames), Len(s.BestBaselineIterations),
                         [t \in 1 .. 2 |-> <<Len(s.MetricsHistory[t]), Len(s.BestMetrics[t]), Len(s.FeatureStrengths[t]), Len(s.RegularFeatureStrengths[t])>>]>>
           Header(s) == <<s.MetricTypes, s.MetricNames, s.FeatureSets>>
           Shaped(s) ==
               /\ Len(s.MetricsHistory) = 2 /\ Len(s.BestMetrics) = 2 /\ Len(s.FeatureStrengths) = 2 /\ Len(s.RegularFeatureStrengths) = 2
               /\ Shape(s) = <<Len(s.MetricNames), Len(s.MetricNames), GetFeatureSetCount(s), [t \in 1 .. 2 |-> <<GetFeatureSetCount(s), GetFeatureSetCount(s), GetFeatureSetCount(s), GetFeatureSetCount(s)>>]>>
               /\ \A t \in 1 .. 2 : \A j \in 1 .. GetFeatureSetCount(s) : Len(s.BestMetrics[t][j]) \in {0, Len(s.MetricTypes)}
       IN  /\ (pc' # "idle" /\ HasHeaderInfo(summary')) => Shaped(summary')
           /\ (restarts' = restarts /\ HasHeaderInfo(summary)) => (Header(summary') = Header(summary) /\ Shape(summary') = Shape(summary))
           /\ (restarts' = restarts /\ ~HasHeaderInfo(summary) /\ HasHeaderInfo(summary')) =>
                  \/ pc = "start" /\ Defined(snapshotFile) /\ summary' = GetRef(snapshotFile).callbacksPart[1]
                  \/ pc = "loop" /\ ProcessedRanges = 0 /\ ~Defined(snapshotFile) /\ Header(summary') = <<GetBestValueType(metrics), [m \in 1 .. Len(metrics) |-> metrics[m].Description], featureEvalOptions.FeaturesToEvaluate>>]_vars

\* a resumed process in its second fold range, training with the header
\* of the snapshot and two feature sets
C23_Witness == restarts = 1 /\ pc = "train" /\ ProcessedRanges >= 1 /\ HasHeaderInfo(summary) /\ GetFeatureSetCount(summary) = 2 /\ Len(summary.MetricsHistory[1][1]) >= 2

\* ---- growth of the summary

\* C24: from one step of a process to the next, for every
\* training kind, feature set and metric the numbers of per-fold entries
\* of MetricsHistory, BestMetrics and BestBaselineIterations do not
\* decrease
C24_MonotoneGrowth ==
    [][(restarts' = restarts /\ HasHeaderInfo(summary)) =>
          \A j \in 1 .. GetFeatureSetCount(summary) :
              /\ Len(summary'.BestBaselineIterations[j]) >= Len(summary.BestBaselineIterations[j])
              /\ \A t \in 1 .. 2 :
                     /\ Len(summary'.MetricsHistory[t][j]) >= Len(summary.MetricsHistory[t][j])
                     /\ Len(summary'.BestMetrics[t][j]) >= Len(summary.BestMetrics[t][j])
                     /\ \A m \in 1 .. Len(summary.BestMetrics[t][j]) : Len(summary'.BestMetrics[t][j][m]) >= Len(summary.BestMetrics[t][j][m])]_vars

\* the only step of a process in which these numbers decrease is the
\* reload of the snapshot on the entry into the first training of a resumed
\* process, which replaces the summary by the saved one
MonotoneExceptReload ==
    [][(restarts' = restarts /\ HasHeaderInfo(summary)) =>
          \/ pc = "fold" /\ callbacks.IsNextLoadValid /\ Defined(snapshotFile) /\ summary' = GetRef(snapshotFile).callbacksPart[1]
          \/ \A j \in 1 .. GetFeatureSetCount(summary) :
                 /\ Len(summary'.BestBaselineIterations[j]) >= Len(summary.BestBaselineIterations[j])
                 /\ \A t \in 1 .. 2 :
                        /\ Len(summary'.MetricsHistory[t][j]) >= Len(summary.MetricsHistory[t][j])
                        /\ Len(summary'.BestMetrics[t][j]) >= Len(summary.BestMetrics[t][j])
                        /\ \A m \in 1 .. Len(summary.BestMetrics[t][j]) : Len(summary'.BestMetrics[t][j][m]) >= Len(summary.BestMetrics[t][j][m])]_vars

\* ---- the checkpoint

\* the tuples an uninterrupted run of the current configuration trains, in
\* program order: <<foldRangeBegin, feature set, kind, fold>>
RunTuples ==
    Concat([r \in 1 .. Len(RunFoldRanges) |->
               LET steps == RangeSteps(RunFoldRanges[r])
                   trained == SelectSeq(steps, LAMBDA step : step[1] = "train")
               IN  [i \in 1 .. Len(trained) |-> <<RunFoldRanges[r][1] * RunDisjointFoldCount, trained[i][2], BoolToUi32(trained[i][3]), trained[i][4]>>]])

\* C25: a snapshot saved with the marker T holds, for every feature set
\* and kind that is trained, exactly one entry of MetricsHistory for each
\* tuple of the run that is ordered before T, so every tuple before T has
\* completed and is in the saved summary, and neither T nor a later tuple
\* has an entry in it
C25_CheckpointConsistency ==
    (Defined(snapshotFile) /\ GetRef(snapshotFile).callbacksPart[6] = featureEvalOptions /\ CountDisjointFolds(PoolUnits, featureEvalOptions).error = "") =>
        LET snapshot == GetRef(snapshotFile).callbacksPart
            T == <<GetRef(snapshot[2]), GetRef(snapshot[3]), BoolToUi32(GetRef(snapshot[4])), GetRef(snapshot[5])>>
            run == RunTuples
            before == SelectSeq(run, LAMBDA tuple : ArrayLess(tuple, T))
        IN  /\ \E i \in 1 .. Len(run) : run[i] = T
            /\ \A i \in 1 .. Len(run) :
                   Len(snapshot[1].MetricsHistory[run[i][3] + 1][run[i][2] + 1]) = Len(SelectSeq(before, LAMBDA tuple : tuple[2] = run[i][2] /\ tuple[3] = run[i][3]))

C25_Witness ==
    /\ Defined(snapshotFile) /\ restarts = 1 /\ pc = "train"
    /\ GetRef(snapshotFile).callbacksPart[6] = featureEvalOptions
    /\ GetRef(snapshotFile).callbacksPart[2] = Just(FoldRangeBegin)
    /\ ProcessedRanges >= 1 /\ featureSetIdx = 1 /\ isTest
    /\ GetRef(snapshotFile).callbacksPart[3] = Just(1)
    /\ Len(GetRef(snapshotFile).callbacksPart[1].MetricsHistory[2][2]) >= 1

MaxTaskFolds == 2

MaxRamLimit == 5

\* the subsets CreateFoldData gets from PrepareFolds (blocks and their
\* complements) and from PrepareTimeSplitFolds (the blocks before the
\* quantile timestamp, and for every fold the one subset after it)
CfInputs ==
    {[trainSubsets |-> Split(PoolUnits, n), testSubsets |-> CalcTrainSubsets(Split(PoolUnits, n), PoolUnits), cpuUsedRamLimit |-> limit] : n \in 1 .. MaxTaskFolds, limit \in 0 .. MaxRamLimit}
    \cup {[trainSubsets |-> SubSeq(QuantileSplit(PoolUnits, n, 1), 1, n), testSubsets |-> [i \in 1 .. n |-> QuantileSplit(PoolUnits, n, 1)[n + 1]], cpuUsedRamLimit |-> limit] : n \in 1 .. MaxTaskFolds, limit \in 0 .. MaxRamLimit}

FoldDataTasksOneTestList(trainSubsets, testSubsets, cpuUsedRamLimit) ==
    [k \in 1 .. 2 * Len(trainSubsets) |->
        IF k % 2 = 1
        THEN [foldIdx |-> (k - 1) \div 2, field |-> "Learn", subset |-> trainSubsets[(k + 1) \div 2], perTaskCpuUsedRamLimit |-> cpuUsedRamLimit \div (2 * Len(trainSubsets)), state |-> "submitted", view |-> Nothing]
        ELSE [foldIdx |-> 0, field |-> "Test", subset |-> testSubsets[k \div 2], perTaskCpuUsedRamLimit |-> cpuUsedRamLimit \div (2 * Len(trainSubsets)), state |-> "submitted", view |-> Nothing]]

\* the tasks of lines 346-377, in the order of the emplace_back calls: for
\* every foldIdx one that assigns the Learn of fold foldIdx and one that
\* appends to the Test of fold foldIdx, each with the budget of line 345
FoldDataTasks(trainSubsets, testSubsets, cpuUsedRamLimit) ==
    [k \in 1 .. 2 * Len(trainSubsets) |->
        IF k % 2 = 1
        THEN [foldIdx |-> (k - 1) \div 2, field |-> "Learn", subset |-> trainSubsets[(k + 1) \div 2], perTaskCpuUsedRamLimit |-> cpuUsedRamLimit \div (2 * Len(trainSubsets)), state |-> "submitted", view |-> Nothing]
        ELSE [foldIdx |-> (k - 2) \div 2, field |-> "Test", subset |-> testSubsets[k \div 2], perTaskCpuUsedRamLimit |-> cpuUsedRamLimit \div (2 * Len(trainSubsets)), state |-> "submitted", view |-> Nothing]]

\* the state on entry: the caller has resized foldsData to foldCount
\* default-constructed elements (lines 436-442 and 489-495)
InitFoldData ==
    /\ cfPc = "call"
    /\ cfInput \in CfInputs
    /\ cfTasks = <<>>
    /\ cfFoldsData = [i \in 1 .. Len(cfInput.trainSubsets) |-> [Learn |-> Nothing, Test |-> <<>>]]
    /\ cfDone = <<>>
    /\ PfIdle
    /\ UiIdle
    /\ EfIdle
    /\ SmIdle

\* lines 343-378: the size check and the submission of the tasks
CallCreateFoldData ==
    /\ cfPc = "call"
    /\ IF Len(cfInput.trainSubsets) # Len(cfInput.testSubsets)
       THEN cfPc' = "failed" /\ UNCHANGED cfTasks
       ELSE cfPc' = "tasks" /\ cfTasks' = FoldDataTasks(cfInput.trainSubsets, cfInput.testSubsets, cfInput.cpuUsedRamLimit)
    /\ UNCHANGED <<cfInput, cfFoldsData, cfDone, pfVars, uiVars, efVars, smVars>>

\* a task computes srcData->GetSubset of its subset
TaskGetSubset(k) ==
    /\ cfPc = "tasks"
    /\ cfTasks[k].state = "submitted"
    /\ cfTasks' = [cfTasks EXCEPT ![k].state = "computed", ![k].view = Just(cfTasks[k].subset)]
    /\ UNCHANGED <<cfPc, cfInput, cfFoldsData, cfDone, pfVars, uiVars, efVars, smVars>>

\* a task stores its view: the assignment to Learn of line 350, or the
\* emplace_back to Test of line 363
TaskStore(k) ==
    /\ cfPc = "tasks"
    /\ cfTasks[k].state = "computed"
    /\ cfTasks' = [cfTasks EXCEPT ![k].state = "done"]
    /\ cfFoldsData' = IF cfTasks[k].field = "Learn"
                      THEN [cfFoldsData EXCEPT ![cfTasks[k].foldIdx + 1].Learn = cfTasks[k].view]
                      ELSE [cfFoldsData EXCEPT ![cfTasks[k].foldIdx + 1].Test = Append(@, GetRef(cfTasks[k].view))]
    /\ cfDone' = Append(cfDone, k)
    /\ UNCHANGED <<cfPc, cfInput, pfVars, uiVars, efVars, smVars>>

\* line 379: ExecuteTasksInParallel returns when every task has finished
ExecuteTasksInParallelReturns ==
    /\ cfPc = "tasks"
    /\ \A k \in 1 .. Len(cfTasks) : cfTasks[k].state = "done"
    /\ cfPc' = "done"
    /\ UNCHANGED <<cfInput, cfTasks, cfFoldsData, cfDone, pfVars, uiVars, efVars, smVars>>

NextFoldData ==
    \/ CallCreateFoldData
    \/ \E k \in 1 .. Len(cfTasks) : TaskGetSubset(k)
    \/ \E k \in 1 .. Len(cfTasks) : TaskStore(k)
    \/ ExecuteTasksInParallelReturns

SpecFoldData == InitFoldData /\ [][NextFoldData]_vars

\* C27: CreateFoldData submits 2 * foldCount tasks, each with the budget
\* cpuUsedRamLimit div (2 * foldCount), that write to pairwise distinct
\* places (the Learn of fold i, the Test list of fold i); however the
\* tasks interleave, when all have finished fold i holds the Learn view of
\* trainSubsets[i] and exactly one Test view, that of testSubsets[i]
C27_ParallelSubsetting ==
    LET foldCount == Len(cfInput.trainSubsets)
    IN  /\ cfPc \in {"tasks", "done"} =>
               /\ Len(cfTasks) = 2 * foldCount
               /\ \A k \in 1 .. Len(cfTasks) : cfTasks[k].perTaskCpuUsedRamLimit = cfInput.cpuUsedRamLimit \div (2 * foldCount)
               /\ \A k, l \in 1 .. Len(cfTasks) : (cfTasks[k].foldIdx = cfTasks[l].foldIdx /\ cfTasks[k].field = cfTasks[l].field) => k = l
               /\ \A i \in 1 .. foldCount :
                      /\ \E k \in 1 .. Len(cfTasks) : cfTasks[k].foldIdx = i - 1 /\ cfTasks[k].field = "Learn"
                      /\ \E k \in 1 .. Len(cfTasks) : cfTasks[k].foldIdx = i - 1 /\ cfTasks[k].field = "Test"
        /\ cfPc = "done" =>
               /\ Len(cfFoldsData) = foldCount
               /\ \A i \in 1 .. foldCount :
                      /\ cfFoldsData[i].Learn = Just(cfInput.trainSubsets[i])
                      /\ cfFoldsData[i].Test = <<cfInput.testSubsets[i]>>
                      /\ cfFoldsData[i].Test = CreateFoldData(cfInput.trainSubsets, cfInput.testSubsets).foldsData[i].Test

C27_Witness ==
    /\ cfPc = "done"
    /\ Len(cfInput.trainSubsets) = 2
    /\ cfInput.cpuUsedRamLimit = 5
    /\ cfDone = <<4, 1, 3, 2>>
    /\ cfInput.testSubsets[1] # cfInput.testSubsets[2]

\* ---- the trained model's size

\* C28: a fold whose trained model has a tree count other than the number
\* of train iterations ends in a fatal error and adds nothing to the
\* summary
C28_TreeCountChecked ==
    [][(pc = "train" /\ restarts' = restarts /\ GetRef(foldContext).treeCount # IterationCount /\ pc' # "train") =>
          (pc' = "failed" /\ summary' = summary)]_vars

\* ---- the order of the markers

\* C29: the markers (FoldRangeBegin, FeatureSetIndex, IsTest, FoldIndex)
\* a process assigns before its trainings are strictly increasing in
\* lexicographic order, in every evaluation mode and partition mode, and
\* during a training the callbacks hold the marker of the tuple in training
C29_MarkerIncreasing ==
    /\ \A i \in 1 .. Len(trainedLog) - 1 : ArrayLess(trainedLog[i], trainedLog[i + 1])
    /\ pc = "train" =>
           /\ trainedLog[Len(trainedLog)] = CurrentTuple
           /\ <<GetRef(callbacks.FoldRangeBegin), GetRef(callbacks.FeatureSetIndex), BoolToUi32(GetRef(callbacks.IsTest)), GetRef(callbacks.FoldIndex)>> = CurrentTuple

C29_Witness ==
    /\ pc = "train" /\ Len(trainedLog) >= 4 /\ ProcessedRanges >= 1
    /\ featureEvalOptions.FeatureEvalMode = "OneVsOthers"
    /\ trainedLog[1][3] = 0 /\ trainedLog[2][3] = 1 /\ trainedLog[3][3] = 0 /\ trainedLog[3][2] = 1

\* ---- the seeds of the folds

\* C30: the number a training draws from the generator of its fold range
\* is the one an uninterrupted run of the configuration draws for the same
\* tuple: the k-th number for the k-th tuple of the range, also in a
\* resumed process that skipped earlier folds of the range
C30_SeedSameUnderResume ==
    pc = "train" =>
        LET run == RunTuples
        IN  randCalls - 1 = Len(SelectSeq(run, LAMBDA tuple : tuple[1] = FoldRangeBegin /\ ArrayLess(tuple, CurrentTuple)))

\* ---- the fold-range loop

\* the steps of the program itself; the kill is the environment's
ProcessStep ==
    \/ EvaluateFeaturesBegin
    \/ EvaluateFeaturesImplBegin
    \/ EvaluateFeaturesEnd
    \/ FeatureSetBaseline
    \/ FeatureSetTesting
    \/ SkipFold
    \/ TrainFoldBegin
    \/ TrainerSaveSnapshot
    \/ TrainFoldEnd
    \/ EvaluateFeaturesImplEnd

\* the runs with at most one feature set and the metrics of CreateMetrics:
\* every offset, fold count, fold size and partition mode of Init
InitLoop == Init /\ FeatureSetsSize <= 1 /\ metrics = Metrics

\* the program keeps running while it can: a process that is not killed
\* is not suspended for ever
SpecLoop == InitLoop /\ [][Next]_vars /\ WF_vars(ProcessStep)

\* C31: the fold-range loop terminates: every process ends (returns or
\* fails) unless it is killed; every iteration of the loop has at least one
\* fold to process, processedFoldCount never exceeds the fold count and is
\* equal to it when EvaluateFeatures returns
C31_LoopTerminates ==
    /\ [](pc \in {"loop", "set", "testing", "fold", "train", "logs", "done"} =>
             /\ processedFoldCount <= EffectiveFoldCount(cvParams, featureEvalOptions)
             /\ processedFoldCount < EffectiveFoldCount(cvParams, featureEvalOptions) => foldRangePart.FoldCount >= 1
             /\ processedFoldCount + foldRangePart.FoldCount <= EffectiveFoldCount(cvParams, featureEvalOptions)
             /\ pc = "done" => processedFoldCount = EffectiveFoldCount(cvParams, featureEvalOptions))
    /\ <>[](pc \in {"done", "failed"})

C31_Witness ==
    /\ pc = "done" /\ ProcessedRanges >= 2 /\ featureEvalOptions.Offset % disjointFoldCount > 0
    /\ processedFoldCount = EffectiveFoldCount(cvParams, featureEvalOptions)

\* C32: whenever the loop of EvaluateFeatures enters or is inside
\* EvaluateFeaturesImpl, foldRangeIdx is below the length
\* CeilDiv(offset + foldCount, disjointFoldCount) of foldRangeRandomSeeds and
\* the range's Offset + FoldCount is at most disjointFoldCount, so that the
\* check of PrepareFolds never fails; foldRangeIdx changes only by the
\* increment at the end of a range, so no two ranges of a process use the
\* same seed index
C32_SeedIndexInBounds ==
    [][LET InRange(p, processed) == p \in {"set", "testing", "fold", "train", "logs"} \/ (p = "loop" /\ processed < EffectiveFoldCount(cvParams, featureEvalOptions))
       IN  /\ InRange(pc', processedFoldCount') =>
                  /\ foldRangeIdx' < CeilDiv(featureEvalOptions'.Offset + EffectiveFoldCount(cvParams', featureEvalOptions'), disjointFoldCount')
                  /\ foldRangePart'.Offset + foldRangePart'.FoldCount <= disjointFoldCount'
           /\ error' # "Dataset permutation logic failed"
           /\ (restarts' = restarts /\ pc # "start") =>
                  \/ foldRangeIdx' = foldRangeIdx /\ ~(pc = "logs" /\ pc' = "loop")
                  \/ foldRangeIdx' = foldRangeIdx + 1 /\ pc = "logs" /\ pc' = "loop"]_vars

C32_Witness ==
    /\ pc = "train" /\ ProcessedRanges >= 1 /\ restarts = 1
    /\ foldRangeIdx = CeilDiv(featureEvalOptions.Offset + EffectiveFoldCount(cvParams, featureEvalOptions), disjointFoldCount) - 1
    /\ featureEvalOptions.Offset % disjointFoldCount > 0

\* ---- the logs of a fold range

CreateLogsReadsAbsolute(s, options, t, foldRangeBegin, absoluteOffset) ==
    LET absoluteBegin == foldRangeBegin + options.Offset
        absoluteEnd == absoluteBegin + options.FoldCount
        useSetZeroAlways == ~t /\ featureEvalOptions.FeatureEvalMode # "OneVsOthers"
    IN  {<<IF useSetZeroAlways THEN 0 ELSE setIdx, absoluteFoldIdx>> : setIdx \in 0 .. GetFeatureSetCount(s) - 1, absoluteFoldIdx \in absoluteBegin .. absoluteEnd - 1}

\* CreateLogs, lines 245-270: the elements <<set, fold>> of
\* MetricsHistory[isTest] it reads for the fold range with the given options
CreateLogsReads(s, options, t, foldRangeBegin, absoluteOffset) ==
    LET absoluteBegin == foldRangeBegin + options.Offset
        absoluteEnd == absoluteBegin + options.FoldCount
        useSetZeroAlways == ~t /\ featureEvalOptions.FeatureEvalMode # "OneVsOthers"
    IN  {<<IF useSetZeroAlways THEN 0 ELSE setIdx, absoluteFoldIdx - absoluteOffset>> : setIdx \in 0 .. GetFeatureSetCount(s) - 1, absoluteFoldIdx \in absoluteBegin .. absoluteEnd - 1}

\* C33: at every CreateLogs call at the end of a fold range, every fold
\* index absoluteFoldIdx - absoluteOffset that is read is at least 0 and
\* below the number of folds MetricsHistory holds for the feature set read
C33_LogsInBounds ==
    (pc = "logs" /\ error = "") =>
        \A t \in (IF FeatureSetsSize = 0 THEN {FALSE} ELSE {FALSE, TRUE}) :
            \A read \in CreateLogsReads(summary, foldRangePart, t, FoldRangeBegin, callbacks.EvalFeatureOptions.Offset) :
                /\ read[2] >= 0
                /\ read[1] + 1 <= Len(summary.MetricsHistory[KindIdx(t)])
                /\ read[2] < Len(summary.MetricsHistory[KindIdx(t)][read[1] + 1])

C33_Witness ==
    /\ pc = "logs" /\ error = "" /\ restarts = 1 /\ ProcessedRanges >= 1
    /\ featureEvalOptions.Offset > 0 /\ FeatureSetsSize = 2 /\ constantSets = {1}
    /\ featureEvalOptions.FeatureEvalMode = "OneVsOthers"
    /\ skippedLog # <<>>

\* ---- fold accounting

\* C35: a process that was never killed has trained, when EvaluateFeatures
\* returns, exactly the requested number of folds for every feature set
\* and training kind it trained, in fixed-size mode and in k-fold mode,
\* into however many fold ranges the run was split
C35_FoldAccounting ==
    (pc = "done" /\ restarts = 0) =>
        \A i \in 1 .. Len(trainedLog) :
            Cardinality({k \in 1 .. Len(trainedLog) : trainedLog[k][2] = trainedLog[i][2] /\ trainedLog[k][3] = trainedLog[i][3]}) = EffectiveFoldCount(cvParams, featureEvalOptions)

====
